---- MODULE Spec2Model ----
(***************************************************************************)
(* Scenario-generation engines of pysenscraft: value modification of a     *)
(* decision matrix (discrete, range, percentage), structural removal of    *)
(* alternatives and criteria, and modification of weight vectors.          *)
(*                                                                         *)
(* Numbers are fixed-point: an integer n stands for the real n / Hundred.  *)
(* Indexes are 0-based as in the source; TLA+ sequences are 1-based, so    *)
(* arrays indexed by the program are functions over 0..n-1 and the lists   *)
(* the program appends to are sequences.                                   *)
(***************************************************************************)
EXTENDS Integers, Sequences, FiniteSets, TLC

VARIABLES
    op,     \* the engine function called last ("none" before any call)
    args,   \* the arguments of that call
    ret,    \* what the call produced: [err, generated, data]
    local   \* the locals of a call that runs step by step (its loop
            \* position and accumulators); Idle outside such a call

vars == <<op, args, ret, local>>

Idle == [pc |-> "idle"]

(***************************************************************************)
(* Bounds of the model.                                                    *)
(***************************************************************************)
MaxRows == 2      \* alternatives of the enumerated matrices
MaxCols == 3      \* criteria of the enumerated matrices
MaxCand == 2      \* candidate values per column / cell
MaxIdx  == 2      \* entries of an indexes array

\* percent -> decimal multiplier (the "/100" of the thresholds); also the
\* fixed-point scale of every number of the model
Hundred == 100

(***************************************************************************)
(* Generic helpers                                                         *)
(***************************************************************************)
Rng(n) == 0 .. (n - 1)

Abs(x) == IF x < 0 THEN 0 - x ELSE x

RECURSIVE SumSeq(_)
SumSeq(s) == IF s = <<>> THEN 0 ELSE Head(s) + SumSeq(Tail(s))

RECURSIVE Flatten(_)
\* concatenation of a sequence of sequences (the order of list.append calls)
Flatten(ss) == IF ss = <<>> THEN <<>> ELSE Head(ss) \o Flatten(Tail(ss))

\* a 0-based array as the sequence of its elements
ToSeq(f, n) == [k \in 1 .. n |-> f[k - 1]]

\* the sequences of length 1..n over S
SeqsUpTo(S, n) == UNION {[1 .. k -> S] : k \in 1 .. n}

Distinct(s) == \A p, q \in DOMAIN s : p # q => s[p] # s[q]

Elems(s) == {s[p] : p \in DOMAIN s}

RECURSIVE ProductFirstFastest(_)
\* the tuples of the product with the first list varying fastest
ProductFirstFastest(lists) ==
    IF lists = <<>> THEN << <<>> >>
    ELSE LET rest == ProductFirstFastest(Tail(lists))
             hd   == Head(lists)
         IN  Flatten([b \in 1 .. Len(rest) |->
                        [a \in 1 .. Len(hd) |-> <<hd[a]>> \o rest[b]]])

RECURSIVE Product(_)
\* itertools.product(*lists): tuples in lexicographic order of positions,
\* the last list varying fastest
Product(lists) ==
    IF lists = <<>> THEN << <<>> >>
    ELSE LET rest == Product(Tail(lists))
             hd   == Head(lists)
         IN  Flatten([a \in 1 .. Len(hd) |->
                        [b \in 1 .. Len(rest) |-> <<hd[a]>> \o rest[b]]])

\* np.round(x, decimals) of a fixed-point number: round half to even to a
\* multiple of 10^-decimals
Pow10(d) == IF d = 0 THEN 1 ELSE IF d = 1 THEN 10 ELSE Hundred
Round(x, decimals) ==
    IF decimals >= 2 THEN x
    ELSE LET q    == Hundred \div Pow10(decimals)
             lowq == x \div q
             r    == x - lowq * q
         IN  IF 2 * r < q THEN lowq * q
             ELSE IF 2 * r > q THEN (lowq + 1) * q
             ELSE IF lowq % 2 = 0 THEN lowq * q ELSE (lowq + 1) * q

\* truncation toward zero to a whole number (storing into an integer array)
TruncInt(x) == IF x >= 0 THEN (x \div Hundred) * Hundred
               ELSE 0 - (((0 - x) \div Hundred) * Hundred)

(***************************************************************************)
(* Matrices: [dtype, rows, cols, cell], cell a function over 0..rows-1 and *)
(* 0..cols-1.                                                              *)
(***************************************************************************)
\* matrix.copy().astype(float): a new array, every value kept, dtype float
AsTypeFloat(m) == [m EXCEPT !.dtype = "float"]

\* new_matrix[alt, c] = v : an integer array truncates what it is given
StoreValue(m, v) == IF m.dtype = "int" THEN TruncInt(v) ELSE v

\* new_matrix[alt_idx, crit_idx] = change, crit_idx a tuple of columns and
\* change the tuple of values (assigned position by position)
SetItem(m, alt, cols, vals) ==
    LET Last(c) == CHOOSE p \in DOMAIN cols :
                      /\ cols[p] = c
                      /\ \A q \in DOMAIN cols : cols[q] = c => q <= p
    IN  [m EXCEPT !.cell =
            [i \in Rng(m.rows) |-> [j \in Rng(m.cols) |->
                IF i = alt /\ j \in Elems(cols)
                THEN StoreValue(m, vals[Last(j)])
                ELSE m.cell[i][j]]]]

\* np.delete(matrix, obj, axis=0) with obj a set of in-range row numbers
DeleteRows(m, S) ==
    LET keep == {i \in Rng(m.rows) : i \notin S}
        n    == Cardinality(keep)
        \* the k-th (0-based) kept row
        Kth(k) == CHOOSE i \in keep : Cardinality({x \in keep : x < i}) = k
    IN  [m EXCEPT !.rows = n,
                  !.cell = [k \in Rng(n) |-> m.cell[Kth(k)]]]

\* np.delete(matrix, obj, axis=1)
DeleteCols(m, S) ==
    LET keep == {j \in Rng(m.cols) : j \notin S}
        n    == Cardinality(keep)
        Kth(k) == CHOOSE j \in keep : Cardinality({x \in keep : x < j}) = k
    IN  [m EXCEPT !.cols = n,
                  !.cell = [i \in Rng(m.rows) |->
                               [k \in Rng(n) |-> m.cell[i][Kth(k)]]]]

(***************************************************************************)
(* Results of a call: either the call raised (nothing is returned;         *)
(* generated counts the scenarios appended before the raise) or it         *)
(* returned the collection data.                                           *)
(***************************************************************************)
Raise(e, n) == [err |-> e, generated |-> n, data |-> <<>>]
Return(data) == [err |-> "none", generated |-> Len(data), data |-> data]

(***************************************************************************)
(* Index specifications.  An indexes argument is None or an ndarray; an    *)
(* int-typed array holds numpy integers ("npint"), an object-typed array   *)
(* holds Python ints ("int") and lists ("list").                           *)
(***************************************************************************)
NoIndexes == [given |-> FALSE, entries |-> <<>>]
IndexArray(entries) == [given |-> TRUE, entries |-> entries]
Scalar(kind, v) == [kind |-> kind, idx |-> <<v>>]
Group(cols) == [kind |-> "list", idx |-> cols]

\* isinstance(c_idx, (int, np.integer))
IsIntOrNpInt(e) == e.kind \in {"int", "npint"}

\* np.arange(1, n, dtype=int) as index entries
ArangeEntries_from_one(n) == [k \in 1 .. n - 1 |-> Scalar("npint", k)]

\* np.arange(0, n, dtype=int) as index entries
ArangeEntries(n) == [k \in 1 .. n |-> Scalar("npint", k - 1)]

OutOfRange(e, size) == \E p \in DOMAIN e.idx : e.idx[p] < 0 \/ e.idx[p] >= size

\* the index check of discrete_modification and range_modification: scalars
\* of both integer kinds and lists are checked against the number of columns
check_indexes(matrix, indexes) ==
    IF indexes.given /\ \E x \in DOMAIN indexes.entries :
                            OutOfRange(indexes.entries[x], matrix.cols)
    THEN "IndexError" ELSE "none"

(***************************************************************************)
(* alternative/discrete.py                                                 *)
(***************************************************************************)
\* modify_matrix of discrete_modification
discrete_modify_matrix_nocast(matrix, alt_idx, crit_idx, change) ==
    SetItem(matrix, alt_idx, crit_idx, change)

discrete_modify_matrix(matrix, alt_idx, crit_idx, change) ==
    SetItem(AsTypeFloat(matrix), alt_idx, crit_idx, change)

\* the check that matrix and discrete values have the same length.
\* a per-cell specification that passed the shape check is read at [a][c]
\* for every row a and column c of the matrix; a specification with fewer
\* rows or columns than the matrix ends in an IndexError, a larger one is
\* read in part
spec_covers(matrix, sp) ==
    sp.dim = 2 \/ (sp.n0 >= matrix.rows /\ sp.n1 >= matrix.cols)

\* discrete_values: [dim, obj, n0, n1, vals]; dim 2: vals[c] is the list of
\* column c (n0 lists); dim 3: vals[a][c] is the list of cell (a, c)
\* (n0 rows of n1 lists each).
discrete_check_shape(matrix, dv) ==
    IF dv.dim = 2
    THEN IF matrix.cols # dv.n0 THEN "ValueError" ELSE "none"
    ELSE IF dv.obj
         THEN \* dv_shape = [number of lists of row a : a]; rows are compared
              \* with dv_shape[0] and columns with dv_shape[1]
              IF matrix.rows # dv.n1
              THEN IF dv.n0 < 2 THEN "IndexError"
                   ELSE IF matrix.cols # dv.n1 THEN "ValueError" ELSE "none"
              ELSE "none"
         ELSE IF matrix.rows # dv.n0 /\ matrix.cols # dv.n1
              THEN "ValueError" ELSE "none"

\* the candidate changes of one (alternative, index entry): the list of the
\* column, or the product of the lists of the columns of a group
discrete_changes(dv, alt_idx, e) ==
    LET lists == IF dv.dim = 2 THEN dv.vals ELSE dv.vals[alt_idx]
    IN  IF IsIntOrNpInt(e)
        THEN [k \in 1 .. Len(lists[e.idx[1]]) |-> <<lists[e.idx[1]][k]>>]
        ELSE Product([p \in 1 .. Len(e.idx) |-> lists[e.idx[p]]])

\* one result tuple (alt_idx, criteria_idx, change_val, new_matrix)
discrete_scenario(matrix, alt_idx, e, change) ==
    [alt    |-> alt_idx,
     crit   |-> e.idx,
     group  |-> ~IsIntOrNpInt(e),
     change |-> [p \in DOMAIN change |-> Round(change[p], 6)],
     matrix |-> discrete_modify_matrix(matrix, alt_idx, e.idx, change)]

discrete_modification(matrix, dv, indexes) ==
    LET shape == discrete_check_shape(matrix, dv)
        idx   == check_indexes(matrix, indexes)
        indexes_values == IF indexes.given THEN indexes.entries
                          ELSE ArangeEntries(matrix.cols)
        ForEntry(a, e) ==
            LET changes == discrete_changes(dv, a, e)
            IN  [k \in 1 .. Len(changes) |->
                    discrete_scenario(matrix, a, e, changes[k])]
        ForAlt(a) == Flatten([x \in 1 .. Len(indexes_values) |->
                                ForEntry(a, indexes_values[x])])
    IN  IF shape # "none" THEN Raise(shape, 0)
        ELSE IF idx # "none" THEN Raise(idx, 0)
        ELSE IF ~spec_covers(matrix, dv) THEN Raise("IndexError", 0)
        ELSE Return(Flatten([r \in 1 .. matrix.rows |-> ForAlt(r - 1)]))

(***************************************************************************)
(* alternative/range.py                                                    *)
(***************************************************************************)
\* np.arange(start, stop, step) for step > 0: start + i*step for
\* i < ceil((stop - start) / step)
Arange(start, stop, step) ==
    LET n == IF stop > start THEN ((stop - start) + step - 1) \div step ELSE 0
    IN  [i \in 1 .. n |-> start + (i - 1) * step]

\* modify_matrix of range_modification
range_modify_matrix(matrix, alt_idx, crit_idx, change) ==
    SetItem(AsTypeFloat(matrix), alt_idx, crit_idx, change)

\* range_values: [dim, n0, n1, vals]; dim 2: vals[c] = <<lower, upper>> of
\* column c (n0 pairs); dim 3: vals[a][c] = <<lower, upper>> of cell (a, c)
range_check_shape(matrix, rv) ==
    IF rv.dim = 2
    THEN IF matrix.cols # rv.n0 THEN "ValueError" ELSE "none"
    ELSE IF matrix.rows # rv.n0 /\ matrix.cols # rv.n1
         THEN "ValueError" ELSE "none"

\* step: [vector, n, val]; a vector step must have one entry per column
range_check_step(matrix, step) ==
    IF step.vector /\ matrix.cols # step.n THEN "ValueError" ELSE "none"

\* change_steps[c]
change_steps(step, c) == IF step.vector THEN step.val[c] ELSE step.val[0]

\* the candidates of one range without the filter to [lower, upper]
range_candidates_unfiltered(bounds, stp) ==
    Arange(bounds[1], bounds[2] + stp, stp)

\* the candidates of one range: arange(lower, upper + step, step) filtered
\* to the values within [lower, upper]
range_candidates(bounds, stp) ==
    SelectSeq(Arange(bounds[1], bounds[2] + stp, stp),
              LAMBDA val : val >= bounds[1] /\ val <= bounds[2])

\* range_changes[c] (2D) or range_changes[alt][c] (3D)
range_changes(rv, step, alt_idx, c) ==
    range_candidates(IF rv.dim = 2 THEN rv.vals[c] ELSE rv.vals[alt_idx][c],
                     change_steps(step, c))

\* the changes of one (alternative, index entry)
range_entry_changes(rv, step, alt_idx, e) ==
    IF IsIntOrNpInt(e)
    THEN LET l == range_changes(rv, step, alt_idx, e.idx[1])
         IN  [k \in 1 .. Len(l) |-> <<l[k]>>]
    ELSE Product([p \in 1 .. Len(e.idx) |->
                    range_changes(rv, step, alt_idx, e.idx[p])])

range_scenario(matrix, alt_idx, e, change) ==
    [alt    |-> alt_idx,
     crit   |-> e.idx,
     group  |-> ~IsIntOrNpInt(e),
     change |-> [p \in DOMAIN change |-> Round(change[p], 6)],
     matrix |-> range_modify_matrix(matrix, alt_idx, e.idx, change)]

range_modification(matrix, rv, indexes, step) ==
    LET shape == range_check_shape(matrix, rv)
        idx   == check_indexes(matrix, indexes)
        stp   == range_check_step(matrix, step)
        indexes_values == IF indexes.given THEN indexes.entries
                          ELSE ArangeEntries(matrix.cols)
        ForEntry(a, e) ==
            LET changes == range_entry_changes(rv, step, a, e)
            IN  [k \in 1 .. Len(changes) |->
                    range_scenario(matrix, a, e, changes[k])]
        ForAlt(a) == Flatten([x \in 1 .. Len(indexes_values) |->
                                ForEntry(a, indexes_values[x])])
    IN  IF shape # "none" THEN Raise(shape, 0)
        ELSE IF idx # "none" THEN Raise(idx, 0)
        ELSE IF stp # "none" THEN Raise(stp, 0)
        ELSE IF ~spec_covers(matrix, rv) THEN Raise("IndexError", 0)
        ELSE Return(Flatten([r \in 1 .. matrix.rows |-> ForAlt(r - 1)]))

(***************************************************************************)
(* alternative/percentage.py : single_percentage                           *)
(***************************************************************************)
\* np.linspace(start, stop, num): num evenly spaced values, both ends
\* included (num = 1 gives the start alone)
Linspace(start, stop, num) ==
    [i \in 1 .. num |->
        IF num = 1 THEN start
        ELSE start + ((i - 1) * (stop - start)) \div (num - 1)]

\* the product of two fixed-point numbers
Mul(a, b) == (a * b) \div Hundred

\* np.linspace(lo, hi, int((hi - lo) / step) + 1) / 100
percent_thresholds(bounds, stp) ==
    LET l == Linspace(bounds[1], bounds[2], ((bounds[2] - bounds[1]) \div stp) + 1)
    IN  [k \in DOMAIN l |-> l[k] \div Hundred]

\* thresholds[row, col].  percentages: [dict, keys, vals] with vals[col] the
\* <<from, to>> percent range of a column (dict) or vals[row][col] that of a
\* cell (ndarray); steps: the 1D array of the steps of the columns
single_thresholds(percentages, steps, row, col) ==
    IF percentages.dict
    THEN IF col \in percentages.keys
         THEN percent_thresholds(percentages.vals[col], steps[col])
         ELSE <<>>
    ELSE percent_thresholds(percentages.vals[row][col], steps[col])

\* the new value of a cell for one threshold
percent_new_value(v, percent, increase) ==
    IF increase THEN v + Mul(v, percent) ELSE v - Mul(v, percent)

RECURSIVE single_cell_loop_nobreak(_, _, _, _, _, _)
single_cell_loop_nobreak(matrix, i, j, th, increase, k) ==
    IF k > Len(th) THEN <<>>
    ELSE LET new_value == percent_new_value(matrix.cell[i][j], th[k], increase)
         IN  << [alt |-> i, crit |-> j, s |-> k - 1,
                 matrix |-> SetItem(AsTypeFloat(matrix), i, <<j>>, <<new_value>>)] >>
             \o single_cell_loop_nobreak(matrix, i, j, th, increase, k + 1)

RECURSIVE single_cell_loop(_, _, _, _, _, _)
\* the loop over the thresholds of cell (i, j) from the k-th one on: a
\* decrease below zero ends the loop of the cell (break)
single_cell_loop(matrix, i, j, th, increase, k) ==
    IF k > Len(th) THEN <<>>
    ELSE LET new_value == percent_new_value(matrix.cell[i][j], th[k], increase)
         IN  IF ~increase /\ new_value < 0 THEN <<>>
             ELSE << [alt |-> i, crit |-> j, s |-> k - 1,
                      matrix |-> SetItem(AsTypeFloat(matrix), i, <<j>>, <<new_value>>)] >>
                  \o single_cell_loop(matrix, i, j, th, increase, k + 1)

\* _generate_matrix of single_percentage: the scenarios in insertion order,
\* each with its key A[alt]-C[crit]-S[s]
single_generate_matrix(matrix, percentages, steps, increase) ==
    Flatten([r \in 1 .. matrix.rows |->
        Flatten([c \in 1 .. matrix.cols |->
            single_cell_loop(matrix, r - 1, c - 1,
                             single_thresholds(percentages, steps, r - 1, c - 1),
                             increase, 1)])])

\* returns the scenarios of the direction asked for ('both': of each)
single_percentage(matrix, percentages, steps, direction) ==
    LET inc == IF direction \in {"increases", "both"}
               THEN single_generate_matrix(matrix, percentages, steps, TRUE)
               ELSE <<>>
        dec == IF direction \in {"decreases", "both"}
               THEN single_generate_matrix(matrix, percentages, steps, FALSE)
               ELSE <<>>
    IN  [err |-> "none", generated |-> Len(inc) + Len(dec),
         data |-> [increases |-> inc, decreases |-> dec]]

(***************************************************************************)
(* alternative/removal.py                                                  *)
(***************************************************************************)
\* the indexes argument of remove_alternatives: None, a Python int or an
\* ndarray
RemovalNone == [kind |-> "None", entries |-> <<>>]
RemovalInt(v) == [kind |-> "int", entries |-> <<Scalar("int", v)>>]
RemovalArray(entries) == [kind |-> "ndarray", entries |-> entries]

\* the index checks: a single int is checked against the number of rows; of
\* the elements of an array only Python ints (isinstance(c_idx, int)) and
\* lists are checked, the numpy integers of an int-typed array are not
removal_check_indexes(matrix, indexes) ==
    IF indexes.kind = "int"
    THEN IF OutOfRange(indexes.entries[1], matrix.rows) THEN "IndexError" ELSE "none"
    ELSE IF indexes.kind = "ndarray"
            /\ \E x \in DOMAIN indexes.entries :
                 /\ indexes.entries[x].kind \in {"int", "list"}
                 /\ OutOfRange(indexes.entries[x], matrix.rows)
         THEN "IndexError" ELSE "none"

\* alt_indexes: without indexes np.arange(0, matrix.shape[1]), for a single
\* int np.array([indexes]), for an array the array itself
removal_alt_indexes(matrix, indexes) ==
    IF indexes.kind = "None" THEN ArangeEntries(matrix.cols)
    ELSE IF indexes.kind = "int"
         THEN <<Scalar("npint", indexes.entries[1].idx[1])>>
         ELSE indexes.entries

\* np.delete raises IndexError for an index outside [-rows, rows)
delete_raises(matrix, e) ==
    \E p \in DOMAIN e.idx : e.idx[p] < 0 - matrix.rows \/ e.idx[p] >= matrix.rows

\* the rows an entry names, negative numbers counted from the end
delete_rows_of(matrix, e) ==
    {IF e.idx[p] < 0 THEN e.idx[p] + matrix.rows ELSE e.idx[p] : p \in DOMAIN e.idx}

\* np.delete(matrix, a_idx, axis=0) with a list removing its first row only
removal_new_matrix_first(matrix, e) ==
    DeleteRows(matrix, delete_rows_of(matrix, [e EXCEPT !.idx = <<e.idx[1]>>]))

\* new_matrix = np.delete(matrix, a_idx, axis=0)
removal_new_matrix(matrix, e) == DeleteRows(matrix, delete_rows_of(matrix, e))

\* the loop over alt_indexes: any exception of np.delete is re-raised as
\* ValueError, after the scenarios of the earlier entries were appended
remove_alternatives(matrix, indexes) ==
    LET idx == removal_check_indexes(matrix, indexes)
        alt_indexes == removal_alt_indexes(matrix, indexes)
        failing == {x \in DOMAIN alt_indexes : delete_raises(matrix, alt_indexes[x])}
    IN  IF idx # "none" THEN Raise(idx, 0)
        ELSE IF failing # {}
        THEN Raise("ValueError",
                   (CHOOSE x \in failing : \A y \in failing : x <= y) - 1)
        ELSE Return([x \in DOMAIN alt_indexes |->
                       [idx    |-> alt_indexes[x].idx,
                        group  |-> alt_indexes[x].kind = "list",
                        matrix |-> removal_new_matrix(matrix, alt_indexes[x])]])

(***************************************************************************)
(* Inputs of the calls.                                                    *)
(***************************************************************************)
\* an integer matrix of distinct whole numbers 1, 2, 3, ...
IntMatrix(r, c) ==
    [dtype |-> "int", rows |-> r, cols |-> c,
     cell |-> [i \in Rng(r) |-> [j \in Rng(c) |-> Hundred * (1 + i * c + j)]]]

\* a float matrix of distinct values -0.5, 0, 0.5, 1, ...
FloatMatrix(r, c) ==
    [dtype |-> "float", rows |-> r, cols |-> c,
     cell |-> [i \in Rng(r) |-> [j \in Rng(c) |-> 50 * (i * c + j) - 50]]]

GenMatrices ==
    UNION {{IntMatrix(r, c), FloatMatrix(r, c)} :
              r \in 1 .. MaxRows, c \in 1 .. MaxCols}

\* the matrices of the calls with indexes
IndexMatrices ==
    UNION {{IntMatrix(MaxRows, c), FloatMatrix(2, c)} : c \in 1 .. MaxCols}

\* the matrix of the examples: [[4, 1, 6], [2, 6, 3], [9, 5, 7]]
ExampleMatrix ==
    [dtype |-> "int", rows |-> 3, cols |-> 3,
     cell |-> [i \in Rng(3) |-> [j \in Rng(3) |->
                 Hundred * (<< <<4, 1, 6>>, <<2, 6, 3>>, <<9, 5, 7>> >>[i + 1][j + 1])]]]

\* the k-th candidate value of column j: 2+j, 5.5+j, 9+j, ...
Cand(j, k) == Hundred * (2 + j) + 350 * (k - 1)

\* per-column discrete values with lens[j] candidates in column j
DV2(c, lens) ==
    [dim |-> 2, obj |-> \E j \in Rng(c) : lens[j] # lens[0], n0 |-> c, n1 |-> 0,
     vals |-> [j \in Rng(c) |-> [k \in 1 .. lens[j] |-> Cand(j, k)]]]

\* per-cell discrete values: cell (i, j) has Len3 candidates
Len3(lens, shift, i, j) == 1 + ((lens[j] - 1 + shift * i) % MaxCand)
DV3(r, c, lens, shift) ==
    [dim |-> 3,
     obj |-> \E i \in Rng(r), j \in Rng(c) :
                Len3(lens, shift, i, j) # Len3(lens, shift, 0, 0),
     n0 |-> r, n1 |-> c,
     vals |-> [i \in Rng(r) |-> [j \in Rng(c) |->
                 [k \in 1 .. Len3(lens, shift, i, j) |-> Cand(j, k) + 1000 * (i + 1)]]]]

\* the discrete values of the examples
FromLists(ll) == [j \in Rng(Len(ll)) |-> [k \in 1 .. Len(ll[j + 1]) |-> Hundred * ll[j + 1][k]]]
ExampleDiscrete2D ==
    [dim |-> 2, obj |-> TRUE, n0 |-> 3, n1 |-> 0,
     vals |-> FromLists(<< <<2, 3, 4>>, <<1, 5, 6>>, <<3, 4>> >>)]
ExampleDiscrete3D ==
    [dim |-> 3, obj |-> TRUE, n0 |-> 3, n1 |-> 3,
     vals |-> [i \in Rng(3) |->
        << [j \in Rng(3) |-> << <<500, 600>>, <<200, 400>>, <<500, 800>> >>[j + 1]],
           [j \in Rng(3) |-> << <<300, 550>>, <<400>>, <<350, 450>> >>[j + 1]],
           [j \in Rng(3) |-> << <<700, 800>>, <<600>>, <<800, 900>> >>[j + 1]] >>[i + 1]]]

\* indexes = np.array([[0, 2], 1], dtype='object')
ExampleIndexes == IndexArray(<<Group(<<0, 2>>), Scalar("int", 1)>>)

AllLens(c) == [Rng(c) -> 1 .. MaxCand]
RampLens(c) == [j \in Rng(c) |-> 1 + (j % MaxCand)]

\* index arrays over a dimension of size n: int-typed arrays of any values
\* from -1 to n, object-typed arrays of Python ints and lists
IntEntries(n) == {Scalar("npint", v) : v \in (0 - 1) .. n}
GroupEntries(n) ==
    {Group(<<p[1], p[2]>>) : p \in {q \in Rng(n) \X Rng(n) : q[1] < q[2]}}
    \cup (IF n >= 2 THEN {Group(<<n - 1, 0>>)} ELSE {})
    \cup {Group(<<0, n>>)}
ObjEntries(n) == {Scalar("int", v) : v \in {n - 1, n}} \cup GroupEntries(n)
IndexArrays(n) ==
    {IndexArray(s) : s \in SeqsUpTo(IntEntries(n), MaxIdx)} \cup
    {IndexArray(s) : s \in SeqsUpTo(ObjEntries(n), MaxIdx)}

\* range values: column j starts at 2+j and is Width wide
MaxWidth == 3     \* widest enumerated range, in half units
Width(w) == 50 * (w % (MaxWidth + 1))
RV2(c, w0) ==
    [dim |-> 2, n0 |-> c, n1 |-> 2,
     vals |-> [j \in Rng(c) |->
                 <<Hundred * (2 + j), Hundred * (2 + j) + Width(w0 + j)>>]]
RV3(r, c, w0) ==
    [dim |-> 3, n0 |-> r, n1 |-> c,
     vals |-> [i \in Rng(r) |-> [j \in Rng(c) |->
                 <<Hundred * (2 + j) + 1000 * (i + 1),
                   Hundred * (2 + j) + 1000 * (i + 1) + Width(w0 + i + j)>>]]]

\* steps 0.4, 0.5 and 1, as a scalar or one per column
StepVals == <<40, 50, Hundred>>
ScalarStep(v) == [vector |-> FALSE, n |-> 1, val |-> [j \in {0} |-> v]]
VectorStep(c, s0) ==
    [vector |-> TRUE, n |-> c,
     val |-> [j \in Rng(c) |-> StepVals[((s0 + j) % Len(StepVals)) + 1]]]
Steps(c) == {ScalarStep(StepVals[k]) : k \in DOMAIN StepVals}
            \cup {VectorStep(c, s0) : s0 \in Rng(Len(StepVals))}

\* range_values = [[6, 8], [2, 4], [4, 6.5]], step 1, 0.5 and
\* [0.25, 0.4, 0.5] of the examples
ExampleRange ==
    [dim |-> 2, n0 |-> 3, n1 |-> 2,
     vals |-> [j \in Rng(3) |-> << <<600, 800>>, <<200, 400>>, <<400, 650>> >>[j + 1]]]
ExampleSteps ==
    {ScalarStep(Hundred), ScalarStep(50),
     [vector |-> TRUE, n |-> 3, val |-> [j \in Rng(3) |-> <<25, 40, 50>>[j + 1]]]}

\* percent ranges (0 %, 0-50 %, 50-150 %, 0-150 %, 100-150 %) and steps
\* (50 and 100 percent points), as fixed-point numbers
PctPairs == << <<0, 0>>, <<0, 5000>>, <<5000, 15000>>, <<0, 15000>>, <<10000, 15000>> >>
PctSteps == <<5000, 10000>>
PctDict(c, keys, p0) ==
    [dict |-> TRUE, keys |-> keys,
     vals |-> [j \in Rng(c) |-> PctPairs[((p0 + j) % Len(PctPairs)) + 1]]]
PctArray(r, c, p0) ==
    [dict |-> FALSE, keys |-> {},
     vals |-> [i \in Rng(r) |-> [j \in Rng(c) |->
                 PctPairs[((p0 + i + j) % Len(PctPairs)) + 1]]]]
PctStepArray(c, s0) == [j \in Rng(c) |-> PctSteps[((s0 + j) % Len(PctSteps)) + 1]]
Directions == {"increases", "decreases", "both"}

(***************************************************************************)
(* The calls.                                                              *)
(***************************************************************************)
Init ==
    /\ op = "none"
    /\ args = <<>>
    /\ ret = Return(<<>>)
    /\ local = Idle

CallDiscrete ==
    /\ op = "none"
    /\ UNCHANGED local
    /\ \E m \in GenMatrices :
         \E dv \in UNION {{DV2(m.cols, l), DV3(m.rows, m.cols, l, 0),
                           DV3(m.rows, m.cols, l, 1)} : l \in AllLens(m.cols)} :
           /\ op' = "discrete_modification"
           /\ args' = [matrix |-> m, discrete_values |-> dv, indexes |-> NoIndexes]
           /\ ret' = discrete_modification(m, dv, NoIndexes)

CallDiscreteIndexes ==
    /\ op = "none"
    /\ UNCHANGED local
    /\ \E m \in IndexMatrices :
         \E dv \in {DV2(m.cols, RampLens(m.cols)),
                    DV3(m.rows, m.cols, RampLens(m.cols), 1)} :
           \E ix \in IndexArrays(m.cols) :
             /\ op' = "discrete_modification"
             /\ args' = [matrix |-> m, discrete_values |-> dv, indexes |-> ix]
             /\ ret' = discrete_modification(m, dv, ix)

CallDiscreteExample ==
    /\ op = "none"
    /\ UNCHANGED local
    /\ \E dv \in {ExampleDiscrete2D, ExampleDiscrete3D} :
         \E ix \in {NoIndexes, ExampleIndexes} :
           /\ op' = "discrete_modification"
           /\ args' = [matrix |-> ExampleMatrix, discrete_values |-> dv, indexes |-> ix]
           /\ ret' = discrete_modification(ExampleMatrix, dv, ix)

CallRange ==
    /\ op = "none"
    /\ UNCHANGED local
    /\ \E m \in GenMatrices :
         \E rv \in UNION {{RV2(m.cols, w0), RV3(m.rows, m.cols, w0)} : w0 \in 0 .. MaxWidth} :
           \E step \in Steps(m.cols) :
             /\ op' = "range_modification"
             /\ args' = [matrix |-> m, range_values |-> rv, indexes |-> NoIndexes,
                         step |-> step]
             /\ ret' = range_modification(m, rv, NoIndexes, step)

CallRangeIndexes ==
    /\ op = "none"
    /\ UNCHANGED local
    /\ \E m \in IndexMatrices :
         \E rv \in {RV2(m.cols, 1), RV3(m.rows, m.cols, 1)} :
           \E ix \in IndexArrays(m.cols) :
             /\ op' = "range_modification"
             /\ args' = [matrix |-> m, range_values |-> rv, indexes |-> ix,
                         step |-> ScalarStep(50)]
             /\ ret' = range_modification(m, rv, ix, ScalarStep(50))

CallRangeExample ==
    /\ op = "none"
    /\ UNCHANGED local
    /\ \E step \in ExampleSteps :
         \E ix \in {NoIndexes, ExampleIndexes} :
           /\ op' = "range_modification"
           /\ args' = [matrix |-> ExampleMatrix, range_values |-> ExampleRange,
                       indexes |-> ix, step |-> step]
           /\ ret' = range_modification(ExampleMatrix, ExampleRange, ix, step)

CallSinglePercentage ==
    /\ op = "none"
    /\ UNCHANGED local
    /\ \E m \in GenMatrices :
         \E pc \in {PctDict(m.cols, K, p0) : K \in SUBSET Rng(m.cols), p0 \in Rng(Len(PctPairs))}
                   \cup {PctArray(m.rows, m.cols, p0) : p0 \in Rng(Len(PctPairs))} :
           \E s0 \in Rng(Len(PctSteps)), d \in Directions :
             /\ op' = "single_percentage"
             /\ args' = [matrix |-> m, percentages |-> pc,
                         steps |-> PctStepArray(m.cols, s0), direction |-> d]
             /\ ret' = single_percentage(m, pc, PctStepArray(m.cols, s0), d)

\* the matrices and the indexes of the removal calls
RemovalMatrices == GenMatrices \cup {ExampleMatrix}
RemovalIndexes(n) ==
    {RemovalNone} \cup {RemovalInt(v) : v \in (0 - 1) .. n}
    \cup {RemovalArray(ix.entries) : ix \in IndexArrays(n)}

CallRemoveAlternatives ==
    /\ op = "none"
    /\ UNCHANGED local
    /\ \E m \in RemovalMatrices :
         \E ix \in RemovalIndexes(m.rows) :
           /\ op' = "remove_alternatives"
           /\ args' = [matrix |-> m, indexes |-> ix]
           /\ ret' = remove_alternatives(m, ix)

Next ==
    \/ CallDiscrete \/ CallDiscreteIndexes \/ CallDiscreteExample
    \/ CallRange \/ CallRangeIndexes \/ CallRangeExample
    \/ CallSinglePercentage
    \/ CallRemoveAlternatives

Spec == Init /\ [][Next]_vars

(***************************************************************************)
(* Properties of the value modification engine.                            *)
(***************************************************************************)
ModifyOps == {"discrete_modification", "range_modification", "single_percentage"}

\* the scenarios a call returned, whatever the collection
ReturnedScenarios ==
    IF op = "single_percentage"
    THEN Elems(ret.data.increases) \cup Elems(ret.data.decreases)
    ELSE Elems(ret.data)

\* every cell of the scenario matrix outside row alt / columns cols equals
\* the input cell, and the scenario matrix is a float array of the same shape
FrameKept(m, sc, alt, cols) ==
    /\ sc.matrix.dtype = "float"
    /\ sc.matrix.rows = m.rows /\ sc.matrix.cols = m.cols
    /\ DOMAIN sc.matrix.cell = Rng(m.rows)
    /\ \A i \in Rng(m.rows) :
         /\ DOMAIN sc.matrix.cell[i] = Rng(m.cols)
         /\ \A j \in Rng(m.cols) :
              (i # alt \/ j \notin cols) => sc.matrix.cell[i][j] = m.cell[i][j]

\* the candidate list of cell (a, c) as the arguments of the call give it:
\* the discrete values, or lower, lower+step, ... not exceeding upper
StepOf(c) == IF args.step.vector THEN args.step.val[c] ELSE args.step.val[0]
BoundsOf(a, c) == IF args.range_values.dim = 2 THEN args.range_values.vals[c]
                  ELSE args.range_values.vals[a][c]
CandList(a, c) ==
    IF op = "discrete_modification"
    THEN IF args.discrete_values.dim = 2 THEN args.discrete_values.vals[c]
         ELSE args.discrete_values.vals[a][c]
    ELSE LET lo == BoundsOf(a, c)[1]
             hi == BoundsOf(a, c)[2]
         IN  [i \in 1 .. (IF hi >= lo THEN ((hi - lo) \div StepOf(c)) + 1 ELSE 0) |->
                lo + (i - 1) * StepOf(c)]

\* the thresholds and the value of a percentage scenario as the arguments
\* give them
PctTargetValue(sc, increase) ==
    LET v  == args.matrix.cell[sc.alt][sc.crit]
        th == single_thresholds(args.percentages, args.steps, sc.alt, sc.crit)
    IN  IF increase THEN v + Mul(v, th[sc.s + 1]) ELSE v - Mul(v, th[sc.s + 1])

\* C1: every scenario matrix of discrete_modification, range_modification
\* and single_percentage has the shape of the input matrix, is a float
\* array, equals the input in every cell but the targeted one(s), and holds
\* the candidate value(s) there.
C1_FrameEffect ==
    /\ (op \in {"discrete_modification", "range_modification"} =>
          \A sc \in Elems(ret.data) :
            /\ FrameKept(args.matrix, sc, sc.alt, Elems(sc.crit))
            /\ \A p \in DOMAIN sc.crit :
                 /\ sc.matrix.cell[sc.alt][sc.crit[p]] = sc.change[p]
                 /\ sc.change[p] \in Elems(CandList(sc.alt, sc.crit[p])))
    /\ (op = "single_percentage" =>
          /\ \A sc \in Elems(ret.data.increases) :
               /\ FrameKept(args.matrix, sc, sc.alt, {sc.crit})
               /\ sc.matrix.cell[sc.alt][sc.crit] = PctTargetValue(sc, TRUE)
          /\ \A sc \in Elems(ret.data.decreases) :
               /\ FrameKept(args.matrix, sc, sc.alt, {sc.crit})
               /\ sc.matrix.cell[sc.alt][sc.crit] = PctTargetValue(sc, FALSE))

\* a joint modification of two columns of an integer matrix with at least
\* two rows and an untouched column, one candidate not a whole number
C1_Witness ==
    /\ op \in {"discrete_modification", "range_modification"}
    /\ args.matrix.dtype = "int" /\ args.matrix.rows >= 2 /\ args.matrix.cols >= 3
    /\ \E sc \in Elems(ret.data) :
         /\ sc.group /\ Len(sc.crit) = 2
         /\ \E p \in DOMAIN sc.change : sc.change[p] % Hundred # 0

\* the index entries a call iterates over
EntriesOf == IF args.indexes.given THEN args.indexes.entries
             ELSE [k \in 1 .. args.matrix.cols |-> Scalar("npint", k - 1)]

RECURSIVE ProdLens(_, _, _)
\* the number of tuples of the candidate lists of columns cols[p..]
ProdLens(a, cols, p) ==
    IF p > Len(cols) THEN 1
    ELSE Len(CandList(a, cols[p])) * ProdLens(a, cols, p + 1)

RECURSIVE CountBefore(_, _)
\* the number of scenarios expected before the block of alternative a and
\* entry number x (1-based)
CountBefore(a, x) ==
    IF x > 1 THEN CountBefore(a, x - 1) + ProdLens(a, EntriesOf[x - 1].idx, 1)
    ELSE IF a > 0 THEN CountBefore(a - 1, Len(EntriesOf) + 1)
    ELSE 0

\* C4: discrete_modification with per-column discrete values and no indexes
\* returns rows x (sum of the numbers of candidates of the columns)
\* scenarios ordered by alternative, column, candidate; 24 for the example,
\* the first one setting cell (0, 0) of alternative 0 to 2.
C4_DiscreteCountOrder ==
    (/\ op = "discrete_modification" /\ ret.err = "none"
     /\ args.discrete_values.dim = 2 /\ ~args.indexes.given) =>
        LET dv  == args.discrete_values.vals
            m   == args.matrix
            per == SumSeq([c \in 1 .. m.cols |-> Len(dv[c - 1])])
            Before(j) == SumSeq([c \in 1 .. j |-> Len(dv[c - 1])])
        IN  /\ Len(ret.data) = m.rows * per
            /\ \A a \in Rng(m.rows), j \in Rng(m.cols) :
                 \A k \in 1 .. Len(dv[j]) :
                    LET sc == ret.data[a * per + Before(j) + k]
                    IN  /\ sc.alt = a /\ sc.crit = <<j>> /\ ~sc.group
                        /\ sc.change = <<dv[j][k]>>
                        /\ sc.matrix.cell[a][j] = dv[j][k]
            /\ (m = ExampleMatrix /\ args.discrete_values = ExampleDiscrete2D) =>
                 /\ Len(ret.data) = 24
                 /\ ret.data[1].alt = 0
                 /\ ret.data[1].matrix.cell[0][0] = 2 * Hundred

C4_Witness ==
    /\ op = "discrete_modification" /\ ret.err = "none"
    /\ args.matrix = ExampleMatrix /\ args.discrete_values = ExampleDiscrete2D
    /\ ~args.indexes.given
    /\ Len(ret.data) = 24

\* C5: with indexes given, each alternative gets, entry by entry in the
\* caller's order, one scenario per tuple of the Cartesian product of the
\* candidate lists of a group's columns (in itertools.product order, tagged
\* with the tuple of columns and the tuple of values) and one per candidate
\* of a scalar entry; the total is the sum of these counts (27 and 16 for
\* the examples).
C5_CartesianProduct ==
    (/\ op \in {"discrete_modification", "range_modification"}
     /\ ret.err = "none" /\ args.indexes.given) =>
        /\ Len(ret.data) = CountBefore(args.matrix.rows, 1)
        /\ \A a \in Rng(args.matrix.rows), x \in DOMAIN EntriesOf :
             LET e == EntriesOf[x]
             IN  \A t \in Rng(ProdLens(a, e.idx, 1)) :
                    LET sc == ret.data[CountBefore(a, x) + t + 1]
                    IN  /\ sc.alt = a /\ sc.crit = e.idx
                        /\ sc.group = (e.kind = "list")
                        /\ Len(sc.change) = Len(e.idx)
                        /\ \A p \in DOMAIN e.idx :
                             sc.change[p] =
                               CandList(a, e.idx[p])[
                                 ((t \div ProdLens(a, e.idx, p + 1))
                                    % Len(CandList(a, e.idx[p]))) + 1]
        /\ (op = "discrete_modification" /\ args.matrix = ExampleMatrix
            /\ args.indexes = ExampleIndexes) =>
              Len(ret.data) = IF args.discrete_values.dim = 2 THEN 27 ELSE 16

\* the example with indexes [[0, 2], 1] and the per-column values returned
\* its 27 scenarios, and some group has lists of different lengths
C5_Witness ==
    /\ op = "discrete_modification" /\ ret.err = "none"
    /\ args.matrix = ExampleMatrix /\ args.indexes = ExampleIndexes
    /\ args.discrete_values = ExampleDiscrete2D
    /\ Len(ret.data) = 27
    /\ \E sc \in Elems(ret.data) : sc.group /\ sc.change = <<4 * Hundred, 3 * Hundred>>

\* C6: the candidates of a column with range [lo, hi] and step s are lo,
\* lo+s, lo+2s, ... up to the largest not exceeding hi; every recorded
\* change lies in [lo, hi], the first scenario of a column has change lo,
\* and a vector step gives each column its own step.
C6_RangeCandidates ==
    (op = "range_modification" /\ ret.err = "none") =>
        /\ \A sc \in Elems(ret.data) : \A p \in DOMAIN sc.crit :
             /\ sc.change[p] >= BoundsOf(sc.alt, sc.crit[p])[1]
             /\ sc.change[p] <= BoundsOf(sc.alt, sc.crit[p])[2]
        /\ ~args.indexes.given =>
             \A a \in Rng(args.matrix.rows), j \in Rng(args.matrix.cols) :
                LET block == SelectSeq(ret.data,
                               LAMBDA sc : sc.alt = a /\ sc.crit = <<j>>)
                    lo == BoundsOf(a, j)[1]
                    hi == BoundsOf(a, j)[2]
                    st == IF args.step.vector THEN args.step.val[j]
                          ELSE args.step.val[0]
                IN  /\ \A k \in DOMAIN block :
                         block[k].change = <<lo + (k - 1) * st>>
                    /\ lo <= hi => block # <<>> /\ block[1].change = <<lo>>
                    /\ lo + Len(block) * st > hi

\* a vector step, a range whose upper bound the steps do not reach, and one
\* whose upper bound they reach
C6_Witness ==
    /\ op = "range_modification" /\ ret.err = "none" /\ ~args.indexes.given
    /\ args.step.vector /\ args.range_values.dim = 2 /\ args.matrix.cols >= 2
    /\ \E j \in Rng(args.matrix.cols) :
         (BoundsOf(0, j)[2] - BoundsOf(0, j)[1]) % args.step.val[j] # 0
    /\ \E sc \in Elems(ret.data) :
         sc.change[1] = BoundsOf(0, sc.crit[1])[2]
         /\ BoundsOf(0, sc.crit[1])[2] > BoundsOf(0, sc.crit[1])[1]

\* C7: for 'decreases' the scenarios recorded for a cell are S[0] .. S[k-1],
\* k the index of the first threshold whose result is negative (all the
\* thresholds if none is), and no recorded scenario has a negative value in
\* its target cell.
C7_DecreaseBreak ==
    (op = "single_percentage" /\ args.direction \in {"decreases", "both"}) =>
        /\ \A sc \in Elems(ret.data.decreases) :
             sc.matrix.cell[sc.alt][sc.crit] >= 0
        /\ \A i \in Rng(args.matrix.rows), j \in Rng(args.matrix.cols) :
             LET th  == single_thresholds(args.percentages, args.steps, i, j)
                 v   == args.matrix.cell[i][j]
                 neg == {s \in 1 .. Len(th) : v - Mul(v, th[s]) < 0}
                 k   == IF neg = {} THEN Len(th)
                        ELSE (CHOOSE s \in neg : \A s2 \in neg : s <= s2) - 1
                 cellscs == SelectSeq(ret.data.decreases,
                               LAMBDA sc : sc.alt = i /\ sc.crit = j)
             IN  /\ Len(cellscs) = k
                 /\ \A n \in 1 .. k : cellscs[n].s = n - 1

\* a cell some of whose decrease scenarios are recorded and a later
\* threshold of which is skipped although its own result is not negative
C7_Witness ==
    /\ op = "single_percentage" /\ args.direction = "decreases"
    /\ \E i \in Rng(args.matrix.rows), j \in Rng(args.matrix.cols) :
         LET th == single_thresholds(args.percentages, args.steps, i, j)
             v  == args.matrix.cell[i][j]
         IN  /\ \E sc \in Elems(ret.data.decreases) : sc.alt = i /\ sc.crit = j
             /\ \E s \in 1 .. Len(th) : v - Mul(v, th[s]) < 0
    /\ \E i \in Rng(args.matrix.rows), j \in Rng(args.matrix.cols) :
         LET th == single_thresholds(args.percentages, args.steps, i, j)
             v  == args.matrix.cell[i][j]
         IN  \E s, s2 \in 1 .. Len(th) :
                s < s2 /\ v - Mul(v, th[s]) < 0 /\ v - Mul(v, th[s2]) >= 0

(***************************************************************************)
(* Properties of the removal of alternatives.                              *)
(***************************************************************************)
\* the scenario matrix is the input without the rows of removed, the other
\* rows in their order
RowsRemoved(m, sc, removed) ==
    /\ sc.matrix.rows = m.rows - Cardinality(removed)
    /\ sc.matrix.cols = m.cols
    /\ DOMAIN sc.matrix.cell = Rng(sc.matrix.rows)
    /\ \A i \in Rng(m.rows) \ removed :
         sc.matrix.cell[i - Cardinality({r \in removed : r < i})] = m.cell[i]

\* C8: remove_alternatives without indexes on a matrix of N rows returns N
\* scenarios, the i-th being (i, the matrix without row i).
C8_RemoveEachRow ==
    (op = "remove_alternatives" /\ args.indexes.kind = "None") =>
        /\ ret.err = "none"
        /\ Len(ret.data) = args.matrix.rows
        /\ \A i \in Rng(args.matrix.rows) :
             /\ ret.data[i + 1].idx = <<i>>
             /\ RowsRemoved(args.matrix, ret.data[i + 1], {i})

\* C9: remove_alternatives with an array of indexes within the rows of the
\* matrix returns one scenario per entry, in the order of the array: a
\* scalar e gives (e, matrix without row e), a list L gives one scenario
\* (L, matrix without the rows of L) with N - |L| rows.
C9_RemoveByEntries ==
    (/\ op = "remove_alternatives" /\ args.indexes.kind = "ndarray"
     /\ \A x \in DOMAIN args.indexes.entries :
          ~OutOfRange(args.indexes.entries[x], args.matrix.rows)) =>
        /\ ret.err = "none"
        /\ Len(ret.data) = Len(args.indexes.entries)
        /\ \A x \in DOMAIN args.indexes.entries :
             LET e == args.indexes.entries[x]
             IN  /\ ret.data[x].idx = e.idx
                 /\ ret.data[x].group = (e.kind = "list")
                 /\ ret.data[x].matrix.rows = args.matrix.rows - Len(e.idx)
                 /\ RowsRemoved(args.matrix, ret.data[x], Elems(e.idx))

\* a three-row matrix, a scalar entry before a list entry of two rows not
\* given in ascending order
C9_Witness ==
    /\ op = "remove_alternatives" /\ ret.err = "none"
    /\ args.matrix.rows = 3
    /\ args.indexes = RemovalArray(<<Scalar("int", 2), Group(<<2, 0>>)>>)
    /\ Len(ret.data) = 2
    /\ ret.data[2].matrix.rows = 1

\* some index of the call lies outside [0, size): size is the number of
\* columns for the modifications and the number of rows for the removal
HasIndexOutOfRange ==
    \/ /\ op \in {"discrete_modification", "range_modification"}
       /\ \E x \in DOMAIN args.indexes.entries :
            OutOfRange(args.indexes.entries[x], args.matrix.cols)
    \/ /\ op = "remove_alternatives"
       /\ \E x \in DOMAIN args.indexes.entries :
            OutOfRange(args.indexes.entries[x], args.matrix.rows)

\* C10: an index outside [0, size) makes discrete_modification,
\* range_modification and remove_alternatives raise IndexError before any
\* scenario is generated.
C10_IndexErrorFirst ==
    HasIndexOutOfRange => (ret.err = "IndexError" /\ ret.generated = 0)

(***************************************************************************)
(* Criteria weights.  A weight is a whole number of 1/WScale; a computed   *)
(* weight vector is kept exactly as [unit, num]: entry k is num[k] / unit. *)
(***************************************************************************)
WScale == 10       \* resolution of the enumerated weights
MaxCrit == 3       \* criteria of the enumerated weight vectors

\* np.delete(weights, crit): the entries of the criteria left, in order
DeleteEntries(w, n, S) ==
    LET keep == {j \in Rng(n) : j \notin S}
        Kth(k) == CHOOSE j \in keep : Cardinality({x \in keep : x < j}) = k
    IN  [k \in 1 .. Cardinality(keep) |-> w[Kth(k - 1)]]

(***************************************************************************)
(* criteria/removal.py                                                     *)
(***************************************************************************)
\* new_weights = np.delete(weights, crit) without the redistribution
removal_new_weights_dropped(weights, n, crit) ==
    LET left == DeleteEntries(weights, n, Elems(crit))
    IN  [unit |-> WScale * Len(left), num |-> [k \in DOMAIN left |-> left[k] * Len(left)]]

\* new_weights = np.delete(weights, crit);
\* new_weights += deleted_weights / new_weights.shape[0]
removal_new_weights(weights, n, crit) ==
    LET left    == DeleteEntries(weights, n, Elems(crit))
        deleted == SumSeq([p \in DOMAIN crit |-> weights[crit[p]]])
    IN  [unit |-> WScale * Len(left),
         num  |-> [k \in DOMAIN left |-> left[k] * Len(left) + deleted]]

\* one scenario of the criteria removal, key C[crit]
removal_scenario(matrix, weights, crit) ==
    [crit    |-> crit,
     matrix  |-> DeleteCols(matrix, Elems(crit)),
     weights |-> removal_new_weights(weights, matrix.cols, crit)]

\* remove_single: combinations is None (given = FALSE) or a vector of
\* criteria
remove_single(matrix, weights, combinations) ==
    LET criteria_combs == IF combinations.given THEN combinations.combs
                          ELSE [k \in 1 .. matrix.cols |-> <<k - 1>>]
    IN  Return([x \in DOMAIN criteria_combs |->
                  removal_scenario(matrix, weights, criteria_combs[x])])

\* itertools.combinations(range(n), k) in its (lexicographic) order
RECURSIVE Combinations(_, _, _)
Combinations(from, n, k) ==
    IF k = 0 THEN << <<>> >>
    ELSE IF n - from < k THEN <<>>
    ELSE LET with == Combinations(from + 1, n, k - 1)
         IN  [x \in DOMAIN with |-> <<from>> \o with[x]]
             \o Combinations(from + 1, n, k)

\* remove_multiple: without combinations, every set of 2 .. size - n
\* criteria
remove_multiple(matrix, weights, combinations, n) ==
    LET size == matrix.cols
        criteria_combs ==
            IF combinations.given THEN combinations.combs
            ELSE Flatten([i \in 1 .. (size - n - 1) |->
                            Combinations(0, size, i + 1)])
    IN  Return([x \in DOMAIN criteria_combs |->
                  removal_scenario(matrix, weights, criteria_combs[x])])

(***************************************************************************)
(* old/criteria/range.py : single_range                                    *)
(***************************************************************************)
\* thresholds[i]: np.linspace(lo, hi, int((hi - lo) / step) + 1) for the
\* criteria of ranges, nothing for the others
weight_thresholds(ranges, step, i) ==
    IF i \in ranges.keys
    THEN Linspace(ranges.vals[i][1], ranges.vals[i][2],
                  ((ranges.vals[i][2] - ranges.vals[i][1]) \div step) + 1)
    ELSE <<>>

\* the weights of one scenario: the criterion takes the threshold and every
\* other weight moves by diff / (len(weights) - 1) the other way
single_range_weights(weights, n, crit_idx, threshold) ==
    LET diff == Abs(weights[crit_idx] - threshold)
    IN  [unit |-> WScale * (n - 1),
         num  |-> [k \in 1 .. n |->
                     IF k - 1 = crit_idx THEN threshold * (n - 1)
                     ELSE IF weights[crit_idx] < threshold
                          THEN weights[k - 1] * (n - 1) - diff
                     ELSE IF weights[crit_idx] > threshold
                          THEN weights[k - 1] * (n - 1) + diff
                     ELSE weights[k - 1] * (n - 1)]]

single_range(weights, n, ranges, step) ==
    Return(Flatten([c \in 1 .. n |->
        LET th == weight_thresholds(ranges, step, c - 1)
        IN  [s \in DOMAIN th |->
               [crit |-> <<c - 1>>, s |-> s - 1,
                weights |-> single_range_weights(weights, n, c - 1, th[s])]]]))

(***************************************************************************)
(* probabilistic/weights.py : perturbed_weights                            *)
(***************************************************************************)
RECURSIVE TenTo(_)
TenTo(p) == IF p = 0 THEN 1 ELSE 10 * TenTo(p - 1)

\* np.round(a / b, precision) in units of 10^-precision, half to even
RoundDiv(a, b, precision) ==
    LET q == (a * TenTo(precision)) \div b
        r == (a * TenTo(precision)) % b
    IN  IF 2 * r > b \/ (2 * r = b /\ q % 2 = 1) THEN q + 1 ELSE q

\* np.clip(x, 0, 1)
Clip(x) == IF x < 0 THEN 0 ELSE IF x > WScale THEN WScale ELSE x

\* one simulation: the perturbation drawn, the candidate clipped and
\* normalized, the result rounded
perturbed_one(weights, n, precision, perturbation) ==
    LET cand == [k \in 1 .. n |-> Clip(weights[k - 1] + perturbation[k])]
    IN  [unit |-> TenTo(precision),
         num  |-> [k \in 1 .. n |-> RoundDiv(cand[k], SumSeq(cand), precision)]]

\* perturbed_weights with the draws of its simulations given
perturbed_weights(weights, n, precision, draws) ==
    Return([x \in DOMAIN draws |->
              [crit |-> <<>>, s |-> x - 1,
               weights |-> perturbed_one(weights, n, precision, draws[x])]])

(***************************************************************************)
(* Inputs and calls of the weight operations.                              *)
(***************************************************************************)
\* the weight vectors of n criteria: non-negative, summing to 1
WeightVectors(n) ==
    {w \in [Rng(n) -> 0 .. WScale] : SumSeq(ToSeq(w, n)) = WScale}

\* vectors of distinct criteria and arrays of combinations that leave a
\* criterion in the matrix
NoCombinations == [given |-> FALSE, combs |-> <<>>]
SingleCombinations(n) ==
    {[given |-> TRUE, combs |-> [x \in DOMAIN s |-> <<s[x]>>]] :
        s \in {t \in SeqsUpTo(Rng(n), 2) : Distinct(t)}}
MultipleCombinations(n) ==
    LET all == UNION {Elems(Combinations(0, n, k)) : k \in 1 .. n - 1}
    IN  {[given |-> TRUE, combs |-> s] : s \in {t \in SeqsUpTo(all, 2) : Distinct(t)}}

\* ranges of one or two criteria, from a few pairs of bounds
RangePairs == << <<3, 4>>, <<6, 9>>, <<0, 2>>, <<5, 5>> >>
WeightRanges(n) ==
    {[keys |-> K, vals |-> [j \in Rng(n) |-> RangePairs[((p0 + j) % Len(RangePairs)) + 1]]] :
        K \in {S \in SUBSET Rng(n) : Cardinality(S) \in {1, 2}},
        p0 \in Rng(Len(RangePairs))}

\* the draws of a perturbation of scale 1/WScale: the ends and the middle
Draws(n) == [1 .. n -> {0 - 1, 0, 1}]

CallRemoveSingle ==
    /\ op = "none"
    /\ UNCHANGED local
    /\ \E n \in 2 .. MaxCrit :
         \E w \in WeightVectors(n) :
           \E cb \in {NoCombinations} \cup SingleCombinations(n) :
             /\ op' = "remove_single"
             /\ args' = [matrix |-> IntMatrix(2, n), n |-> n, weights |-> w,
                         combinations |-> cb]
             /\ ret' = remove_single(IntMatrix(2, n), w, cb)

CallRemoveMultiple ==
    /\ op = "none"
    /\ UNCHANGED local
    /\ \E n \in 2 .. MaxCrit :
         \E w \in WeightVectors(n) :
           \E cb \in {NoCombinations} \cup MultipleCombinations(n) :
             \E keep \in 1 .. (IF cb.given THEN 1 ELSE n) :
               /\ op' = "remove_multiple"
               /\ args' = [matrix |-> IntMatrix(2, n), n |-> n, weights |-> w,
                           combinations |-> cb, keep |-> keep]
               /\ ret' = remove_multiple(IntMatrix(2, n), w, cb, keep)

CallSingleRange ==
    /\ op = "none"
    /\ UNCHANGED local
    /\ \E n \in 2 .. MaxCrit :
         \E w \in WeightVectors(n) :
           \E rg \in WeightRanges(n) :
             /\ op' = "single_range"
             /\ args' = [n |-> n, weights |-> w, ranges |-> rg, step |-> 1]
             /\ ret' = single_range(w, n, rg, 1)

CallPerturbedWeights ==
    /\ op = "none"
    /\ UNCHANGED local
    /\ \E n \in 2 .. MaxCrit :
         \E w \in WeightVectors(n) :
           \E precision \in {2, 3}, d \in Draws(n) :
             /\ op' = "perturbed_weights"
             /\ args' = [n |-> n, weights |-> w, precision |-> precision,
                         draws |-> <<d>>]
             /\ ret' = perturbed_weights(w, n, precision, <<d>>)

NextWeights ==
    \/ CallRemoveSingle \/ CallRemoveMultiple
    \/ CallSingleRange \/ CallPerturbedWeights

SpecWeights == Init /\ [][NextWeights]_vars

C3_WeightInvariant ==
    op \in {"single_range", "perturbed_weights"} =>
        \A sc \in Elems(ret.data) :
            /\ \A k \in DOMAIN sc.weights.num : sc.weights.num[k] >= 0
            /\ Abs(SumSeq(sc.weights.num) - sc.weights.unit) * 1000 < sc.weights.unit

(***************************************************************************)
(* alternative/percentage.py : multiple_percentage                         *)
(***************************************************************************)
\* the combinations argument: None, an ndarray of combinations (combs) or a
\* dict from alternatives to their combinations (keys in the order of the
\* dict, map[alt] the list of alt)
CombNone == [kind |-> "None", combs |-> <<>>, keys |-> <<>>, map |-> <<>>]
CombArray(combs) == [kind |-> "ndarray", combs |-> combs, keys |-> <<>>, map |-> <<>>]
CombDict(keys, map) == [kind |-> "dict", combs |-> <<>>, keys |-> keys, map |-> map]

\* the default combinations with sets of one criterion included
multiple_default_combs_from_one(cols) ==
    Flatten([i \in 1 .. (cols - 1) |-> Combinations(0, cols, i)])

\* the default combinations: itertools.combinations(criteria_set, i) for i
\* in range(2, matrix.shape[1])
multiple_default_combs(cols) ==
    Flatten([i \in 1 .. (cols - 2) |-> Combinations(0, cols, i + 1)])

\* alternatives_set: every row, or the keys of the dict in their order
multiple_alternatives_set(matrix, combinations) ==
    IF combinations.kind = "dict" THEN combinations.keys
    ELSE [a \in 1 .. matrix.rows |-> a - 1]

\* criteria_combs[alt]
multiple_criteria_combs(matrix, combinations, alt) ==
    IF combinations.kind = "None" THEN multiple_default_combs(matrix.cols)
    ELSE IF combinations.kind = "ndarray" THEN combinations.combs
    ELSE IF alt \in Elems(combinations.keys) THEN combinations.map[alt]
    ELSE <<>>

\* the loop over the percents of one tuple: a decrease below zero ends it
\* (break); the scenario is stored after each value written, so it is
\* recorded when the first value was written and holds the values written
multiple_apply(matrix, alt, criteria, percents, increase) ==
    LET val(p) == percent_new_value(matrix.cell[alt][criteria[p]], percents[p], increase)
        neg    == {p \in DOMAIN percents : ~increase /\ val(p) < 0}
        stop   == IF neg = {} THEN Len(percents) + 1
                  ELSE CHOOSE p \in neg : \A q \in neg : p <= q
    IN  [recorded |-> stop > 1,
         matrix   |-> SetItem(AsTypeFloat(matrix), alt,
                              SubSeq(criteria, 1, stop - 1),
                              [p \in 1 .. (stop - 1) |-> val(p)])]

\* the scenarios of one (alternative, combination): one per tuple of the
\* product of the thresholds of its criteria
multiple_comb_scenarios(matrix, thresholds, alt, criteria, increase) ==
    LET percent_combs == Product([p \in DOMAIN criteria |-> thresholds[alt][criteria[p]]])
        one(x) == multiple_apply(matrix, alt, criteria, percent_combs[x], increase)
        kept   == SelectSeq([x \in DOMAIN percent_combs |-> x],
                            LAMBDA x : one(x).recorded)
    IN  [y \in DOMAIN kept |->
            [alt |-> alt, crit |-> criteria, s |-> kept[y] - 1,
             matrix |-> one(kept[y]).matrix]]

\* the items of a dict filled in the order of seq: a key assigned again
\* keeps its place (the scenarios of one key are equal)
DictItems(seq) ==
    SelectSeq([x \in DOMAIN seq |-> x],
              LAMBDA x : \A y \in 1 .. (x - 1) :
                  <<seq[y].alt, seq[y].crit, seq[y].s>> # <<seq[x].alt, seq[x].crit, seq[x].s>>)

\* _generate_matrix of multiple_percentage
multiple_generate_matrix(matrix, combinations, thresholds, increase) ==
    LET alternatives_set == multiple_alternatives_set(matrix, combinations)
        all == Flatten([x \in DOMAIN alternatives_set |->
          LET alt   == alternatives_set[x]
              combs == multiple_criteria_combs(matrix, combinations, alt)
          IN  Flatten([y \in DOMAIN combs |->
                multiple_comb_scenarios(matrix, thresholds, alt, combs[y], increase)])])
        items == DictItems(all)
    IN  [x \in DOMAIN items |-> all[items[x]]]

multiple_percentage(matrix, percentages, steps, combinations, direction) ==
    LET thresholds == [i \in Rng(matrix.rows) |-> [j \in Rng(matrix.cols) |->
                          single_thresholds(percentages, steps, i, j)]]
        inc == IF direction \in {"increases", "both"}
               THEN multiple_generate_matrix(matrix, combinations, thresholds, TRUE)
               ELSE <<>>
        dec == IF direction \in {"decreases", "both"}
               THEN multiple_generate_matrix(matrix, combinations, thresholds, FALSE)
               ELSE <<>>
    IN  [err |-> "none", generated |-> Len(inc) + Len(dec),
         data |-> [increases |-> inc, decreases |-> dec]]

(***************************************************************************)
(* Inputs and calls of the operations on combinations of criteria.         *)
(***************************************************************************)
\* matrices of two to MaxCols + 1 criteria
CombMatrices ==
    {IntMatrix(r, c) : r \in 1 .. 2, c \in 2 .. MaxCols + 1}
    \cup {FloatMatrix(2, MaxCols)}

\* explicit combinations: up to two distinct combinations in any order
ExplicitCombs(c) ==
    LET all == {<<0, 1>>, <<1, 0>>, <<c - 1>>, <<0, c - 1>>}
    IN  {t \in SeqsUpTo(all, 2) : Distinct(t)}

\* dicts of combinations: one or two alternatives in any order, each with
\* its own list
CombDicts(r, c) ==
    {CombDict(keys, [a \in Rng(r) |-> IF a = 0 THEN l0 ELSE l1]) :
        keys \in {t \in SeqsUpTo(Rng(r), 2) : Distinct(t) /\ t # <<>>},
        l0 \in {<< <<0, 1>> >>, << <<c - 1, 0>>, <<0, 1>> >>},
        l1 \in {<< <<c - 1>> >>, << <<1, 0>> >>}}

CombArguments(r, c) ==
    {CombNone} \cup {CombArray(t) : t \in ExplicitCombs(c)} \cup CombDicts(r, c)

\* percentages with thresholds for every cell, and a dict without column 0
CombPercentages(r, c) ==
    {PctArray(r, c, p0) : p0 \in Rng(Len(PctPairs))}
    \cup {PctDict(c, Rng(c), 1), PctDict(c, Rng(c) \ {0}, 1)}

\* weights 0.1, 0.2, ... with the rest on the last criterion
RampWeights(n) ==
    [j \in Rng(n) |-> IF j < n - 1 THEN (j % 3) + 1
                      ELSE WScale - SumSeq([k \in 1 .. n - 1 |-> ((k - 1) % 3) + 1])]

CallMultiplePercentage ==
    /\ op = "none"
    /\ UNCHANGED local
    /\ \E m \in CombMatrices :
         \E pc \in CombPercentages(m.rows, m.cols) :
           \E cb \in CombArguments(m.rows, m.cols), d \in Directions :
             /\ op' = "multiple_percentage"
             /\ args' = [matrix |-> m, percentages |-> pc,
                         steps |-> PctStepArray(m.cols, 0),
                         combinations |-> cb, direction |-> d]
             /\ ret' = multiple_percentage(m, pc, PctStepArray(m.cols, 0), cb, d)

CallRemoveMultipleDefault ==
    /\ op = "none"
    /\ UNCHANGED local
    /\ \E n \in 2 .. MaxCrit + 1 :
         \E keep \in 1 .. n :
           /\ op' = "remove_multiple"
           /\ args' = [matrix |-> IntMatrix(2, n), n |-> n,
                       weights |-> RampWeights(n),
                       combinations |-> NoCombinations, keep |-> keep]
           /\ ret' = remove_multiple(IntMatrix(2, n), RampWeights(n),
                                     NoCombinations, keep)

NextCombinations ==
    \/ CallMultiplePercentage \/ CallRemoveMultipleDefault \/ CallRemoveMultiple

SpecCombinations == Init /\ [][NextCombinations]_vars

(***************************************************************************)
(* Properties of the combinations.                                         *)
(***************************************************************************)
LexLess(a, b) ==
    \E p \in DOMAIN a : a[p] < b[p] /\ \A q \in 1 .. (p - 1) : a[q] = b[q]

\* L lists every set of kmin .. kmax of the indexes 0 .. n-1 once, as an
\* ascending tuple, by increasing size and lexicographically within a size
AllSubsetsInOrder(L, n, kmin, kmax) ==
    /\ Elems(L) = {t \in SeqsUpTo(Rng(n), kmax) :
                     /\ Len(t) >= kmin
                     /\ \A p \in 1 .. (Len(t) - 1) : t[p] < t[p + 1]}
    /\ Len(L) = Cardinality(Elems(L))
    /\ \A x \in 1 .. (Len(L) - 1) :
         \/ Len(L[x]) < Len(L[x + 1])
         \/ Len(L[x]) = Len(L[x + 1]) /\ LexLess(L[x], L[x + 1])

\* the (alternative, combination) blocks of a collection of scenarios, in
\* the order of their first scenario
Blocks(data) ==
    LET first == SelectSeq([x \in DOMAIN data |-> x],
                    LAMBDA x : x = 1 \/ data[x].alt # data[x - 1].alt
                                     \/ data[x].crit # data[x - 1].crit)
    IN  [y \in DOMAIN first |-> <<data[first[y]].alt, data[first[y]].crit>>]

\* every criterion of the combination has a threshold for the alternative
HasThresholds(alt, criteria) ==
    \A p \in DOMAIN criteria :
        single_thresholds(args.percentages, args.steps, alt, criteria[p]) # <<>>

\* the blocks expected of explicit combinations: the array for every
\* alternative, or for each key of the dict its own list
ExpectedBlocks ==
    LET cb   == args.combinations
        alts == IF cb.kind = "dict" THEN cb.keys
                ELSE [a \in 1 .. args.matrix.rows |-> a - 1]
        of(a) == IF cb.kind = "dict" THEN cb.map[a] ELSE cb.combs
    IN  SelectSeq(Flatten([x \in DOMAIN alts |->
                     [y \in DOMAIN of(alts[x]) |-> <<alts[x], of(alts[x])[y]>>]]),
                  LAMBDA b : HasThresholds(b[1], b[2]))

\* C11: without combinations, multiple_percentage uses for every alternative
\* all sets of 2 .. C-1 criteria and remove_multiple all sets of
\* 2 .. size-n criteria, by increasing size and in lexicographic order
\* within a size; an array of combinations is applied to every alternative
\* in the caller's order, and a dict gives scenarios only to its keys, each
\* with its own list.
C11_CombinationsEnumerated ==
    /\ (op = "multiple_percentage" /\ args.direction # "decreases") =>
          LET blocks == Blocks(ret.data.increases)
          IN  IF args.combinations.kind = "None"
              THEN (\A a \in Rng(args.matrix.rows), j \in Rng(args.matrix.cols) :
                        HasThresholds(a, <<j>>)) =>
                     /\ \A x \in 1 .. (Len(blocks) - 1) :
                          blocks[x][1] <= blocks[x + 1][1]
                     /\ \A a \in Rng(args.matrix.rows) :
                          LET mine == SelectSeq(blocks, LAMBDA b : b[1] = a)
                          IN  AllSubsetsInOrder([x \in DOMAIN mine |-> mine[x][2]],
                                                args.matrix.cols, 2,
                                                args.matrix.cols - 1)
              ELSE blocks = ExpectedBlocks
    /\ op = "remove_multiple" =>
          LET used == [x \in DOMAIN ret.data |-> ret.data[x].crit]
          IN  IF args.combinations.given THEN used = args.combinations.combs
              ELSE AllSubsetsInOrder(used, args.n, 2, args.n - args.keep)

\* the default combinations of four criteria or more: sets of two before
\* sets of three, for two alternatives
C11_Witness ==
    /\ op = "multiple_percentage" /\ args.direction = "increases"
    /\ args.combinations.kind = "None"
    /\ args.matrix.rows = 2 /\ args.matrix.cols >= 4
    /\ \E x, y \in DOMAIN ret.data.increases :
         /\ x < y
         /\ ret.data.increases[x].alt = 1 /\ ret.data.increases[y].alt = 1
         /\ ret.data.increases[x].crit = <<2, 3>>
         /\ ret.data.increases[y].crit = <<0, 1, 2>>

(***************************************************************************)
(* ranking/promotion.py : ranking_promotion.  The evaluation method is a   *)
(* callable of the caller and the ranks come from pymcdm.helpers.rankdata  *)
(* (ties share the average of their places), so one evaluation is modelled *)
(* as a choice: it raises, or it yields the rank of the alternative under  *)
(* study.  Ranks are kept in half units (rank 1.5 is 3) so that tied ranks *)
(* are exact; matrix values, steps and limits are in hundredths.           *)
(***************************************************************************)
MaxSweep == 2

\* np.arange(start, stop, step) for a step of either sign
SignedArange(start, stop, step) ==
    LET span == IF step > 0 THEN stop - start ELSE start - stop
        n    == IF span > 0 THEN (span + Abs(step) - 1) \div Abs(step) ELSE 0
    IN  [i \in 1 .. n |-> start + (i - 1) * step]

NoVector == [given |-> FALSE, v |-> <<>>]
Vector(v) == [given |-> TRUE, v |-> v]

\* generate_crit_changes: the candidate values of one cell, in sweep order
generate_crit_changes(matrix, alt_idx, crit_idx, direction, step, bounds, max_modification) ==
    IF ~bounds.given
    THEN SignedArange(matrix.cell[alt_idx][crit_idx],
                      matrix.cell[alt_idx][crit_idx] * max_modification * direction[crit_idx + 1],
                      step * direction[crit_idx + 1])
    ELSE SignedArange(matrix.cell[alt_idx][crit_idx],
                      bounds.v[crit_idx + 1],
                      step * direction[crit_idx + 1])

\* the argument checks of ranking_promotion, in the order of the code; the
\* lengths of initial_ranking, direction and positions are all compared with
\* the number of columns
promotion_check(a) ==
    IF \E p \in DOMAIN a.direction : a.direction[p] \notin {-1, 1} THEN "ValueError"
    ELSE IF a.matrix.cols # Len(a.initial_ranking) THEN "ValueError"
    ELSE IF a.matrix.cols # Len(a.direction) THEN "ValueError"
    ELSE IF ~a.bounds.given /\ a.max_modification = 0 THEN "TypeError"   \* 0 stands for None
    ELSE IF a.positions.given /\ a.matrix.cols # Len(a.positions.v) THEN "ValueError"
    ELSE IF a.positions.given /\ \E p \in DOMAIN a.positions.v :
                a.positions.v[p] <= 0 \/ a.positions.v[p] > Len(a.positions.v)
         THEN "ValueError"
    ELSE "none"

Pending == [err |-> "pending", generated |-> 0, data |-> <<>>]

\* the candidates of the pair the frame is at
promo_candidates(a, f) ==
    generate_crit_changes(a.matrix, f.alt, f.crit, a.direction, a.step,
                          a.bounds, a.max_modification)

\* the head of the inner loop body: new_positions[alt, crit] is set from
\* initial_ranking[alt] or positions[alt]; new_positions is an integer array,
\* so a rank with a fraction loses it.  An index past the end of the vector
\* raises IndexError (outside the try block).
promo_enter(a, results, alt_idx, crit_idx) ==
    LET src == IF a.positions.given THEN [k \in DOMAIN a.positions.v |-> 2 * a.positions.v[k]]
               ELSE a.initial_ranking
    IN  IF alt_idx + 1 \notin DOMAIN src
        THEN [pc |-> "failed", alt |-> alt_idx, crit |-> crit_idx, k |-> 0,
              stop |-> FALSE, new_position |-> 0, change |-> 0,
              results |-> results, ranks |-> <<>>, kwargs_matrix |-> a.matrix,
              msg |-> ""]
        ELSE [pc |-> "sweep", alt |-> alt_idx, crit |-> crit_idx, k |-> 0,
              stop |-> FALSE, new_position |-> src[alt_idx + 1] \div 2, change |-> 0,
              results |-> results, ranks |-> <<>>, kwargs_matrix |-> a.matrix,
              msg |-> ""]

\* one pass of the sweep whose evaluation leaves every rank recorded and
\* never leaves the loop early
promo_step_nobreak(a, f, rank2) ==
    LET change   == promo_candidates(a, f)[f.k + 1]
        improved == rank2 < 2 * f.new_position
    IN  [f EXCEPT !.k = f.k + 1,
                  !.ranks = Append(f.ranks, rank2),
                  !.kwargs_matrix = SetItem(a.matrix, f.alt, <<f.crit>>, <<change>>),
                  !.new_position = IF improved THEN rank2 \div 2 ELSE @,
                  !.change = IF improved THEN change ELSE @]

\* one pass of the sweep in which the method returned and the alternative
\* got rank2 / 2: the matrix handed to the method is a copy of the input with
\* the candidate stored (same dtype), it replaces call_kwargs['matrix'], the
\* best position and its change are updated and the loop is left on the
\* target rank
promo_step(a, f, rank2) ==
    LET change   == promo_candidates(a, f)[f.k + 1]
        improved == rank2 < 2 * f.new_position
        pos1     == IF improved THEN rank2 \div 2 ELSE f.new_position
        chg1     == IF improved THEN change ELSE f.change
        target   == IF a.positions.given THEN rank2 = 2 * a.positions.v[f.alt + 1]
                    ELSE rank2 = 2
        rewrite  == a.positions.given /\ target /\ a.initial_ranking[f.alt + 1] # 2
    IN  [f EXCEPT !.k = f.k + 1,
                  !.ranks = Append(f.ranks, rank2),
                  !.kwargs_matrix = SetItem(a.matrix, f.alt, <<f.crit>>, <<change>>),
                  !.new_position = IF rewrite THEN rank2 \div 2 ELSE pos1,
                  !.change = IF rewrite THEN change ELSE chg1,
                  !.stop = target]

\* an evaluation that raises and whose error is swallowed: the call goes on
\* to return what it has
promo_raise_swallowed(f, message) ==
    [f EXCEPT !.pc = "returned", !.msg = message]

\* except Exception as err: raise ValueError(err)
promo_raise(f, message) ==
    [f EXCEPT !.pc = "raised", !.msg = message]

\* the record appended after the sweep of a pair (None when it is suppressed)
promo_record(a, f) ==
    IF a.return_zeros \/ 2 * f.new_position # a.initial_ranking[f.alt + 1]
    THEN << <<f.alt, f.crit, f.change, f.new_position>> >>
    ELSE <<>>

\* the end of the pair: append its record, go to the next pair in row-major
\* order, or return the records after the last pair; call_kwargs is the
\* caller's dictionary and keeps the matrix of the last evaluated step
promo_pair_done(a, f) ==
    LET results == f.results \o promo_record(a, f)
        next(alt_idx, crit_idx) ==
            [promo_enter(a, results, alt_idx, crit_idx)
                EXCEPT !.kwargs_matrix = f.kwargs_matrix]
    IN  IF f.crit + 1 < a.matrix.cols THEN next(f.alt, f.crit + 1)
        ELSE IF f.alt + 1 < a.matrix.rows THEN next(f.alt + 1, 0)
        ELSE [f EXCEPT !.pc = "returned", !.results = results]

\* what the caller has got when the frame is in state f
promo_outcome(f) ==
    CASE f.pc = "returned" -> Return(f.results)
      [] f.pc = "failed"   -> Raise("IndexError", 0)
      [] f.pc = "raised"   -> [err |-> "ValueError", generated |-> 0,
                               data |-> <<>>, msg |-> f.msg]
      [] OTHER             -> Pending

SweepOver(a, f) == f.stop \/ f.k >= Len(promo_candidates(a, f))

\* the ranks (in half units) an alternative can get among n alternatives
Ranks2(n) == 2 .. 2 * n

Messages == {"singular matrix", "bad weights"}

\* a matrix of ones
OnesMatrix(r, c) ==
    [dtype |-> "int", rows |-> r, cols |-> c,
     cell |-> [i \in Rng(r) |-> [j \in Rng(c) |-> Hundred]]]

PromoShapes == {<<1, 1>>, <<2, 2>>, <<1, 2>>, <<2, 1>>}

\* rankings of n alternatives, with and without a tie
PromoRankings(n) ==
    IF n = 1 THEN {<<2>>} ELSE {<<2, 4>>, <<4, 2>>, <<3, 3>>}

PromoDirections(c) ==
    IF c = 1 THEN {<<1>>, <<-1>>, <<0>>} ELSE {<<1, 1>>, <<-1, 1>>, <<1, 0>>}

PromoPositions(c) ==
    IF c = 1 THEN {NoVector, Vector(<<1>>), Vector(<<2>>)}
    ELSE {NoVector, Vector(<<1, 1>>), Vector(<<2, 1>>), Vector(<<0, 1>>)}

\* bounds that give the first column a sweep of l0 values and the second one
\* of l1 values
PromoBounds(c, direction, l0, l1) ==
    Vector([j \in 1 .. c |->
        Hundred + direction[j] * Hundred * (IF j = 1 THEN l0 ELSE l1)])

PromoLimits(c, direction) ==
    {[bounds |-> NoVector, max_modification |-> m] : m \in 0 .. 2}
    \cup {[bounds |-> PromoBounds(c, direction, l0, l1), max_modification |-> 0] :
             l0 \in 0 .. MaxSweep, l1 \in 0 .. 1}

CallRankingPromotion ==
    /\ op = "none"
    /\ \E shape \in PromoShapes, return_zeros \in BOOLEAN :
       \E n \in {shape[1], shape[2]} :
       \E initial_ranking \in PromoRankings(n),
          direction \in PromoDirections(shape[2]),
          positions \in PromoPositions(shape[2]) :
       \E limit \in PromoLimits(shape[2], direction) :
          LET a == [matrix |-> OnesMatrix(shape[1], shape[2]),
                    initial_ranking |-> initial_ranking,
                    direction |-> direction, step |-> Hundred,
                    bounds |-> limit.bounds,
                    max_modification |-> limit.max_modification,
                    positions |-> positions, return_zeros |-> return_zeros]
              f == IF promotion_check(a) = "none" THEN promo_enter(a, <<>>, 0, 0)
                   ELSE Idle
          IN  /\ op' = "ranking_promotion"
              /\ args' = a
              /\ local' = f
              /\ ret' = IF promotion_check(a) = "none" THEN promo_outcome(f)
                        ELSE Raise(promotion_check(a), 0)

\* the method returns and the alternative is ranked
PromoEval ==
    /\ op = "ranking_promotion"
    /\ local.pc = "sweep"
    /\ ~SweepOver(args, local)
    /\ \E rank2 \in Ranks2(args.matrix.rows) :
          local' = promo_step(args, local, rank2)
    /\ UNCHANGED <<op, args, ret>>

\* the method, or the ranking of its output, raises
PromoRaise ==
    /\ op = "ranking_promotion"
    /\ local.pc = "sweep"
    /\ ~SweepOver(args, local)
    /\ \E message \in Messages :
          /\ local' = promo_raise(local, message)
          /\ ret' = promo_outcome(local')
    /\ UNCHANGED <<op, args>>

PromoPairDone ==
    /\ op = "ranking_promotion"
    /\ local.pc = "sweep"
    /\ SweepOver(args, local)
    /\ local' = promo_pair_done(args, local)
    /\ ret' = promo_outcome(local')
    /\ UNCHANGED <<op, args>>

NextPromotion ==
    \/ CallRankingPromotion
    \/ PromoEval
    \/ PromoRaise
    \/ PromoPairDone

SpecPromotion == Init /\ [][NextPromotion]_vars

(***************************************************************************)
(* Properties of ranking_promotion                                         *)
(***************************************************************************)
Promoting == op = "ranking_promotion" /\ local # Idle

\* the (alternative, criterion) pairs of an r x c matrix in row-major order
RowMajorPairs(r, c) == [i \in 1 .. r * c |-> <<(i - 1) \div c, (i - 1) % c>>]

\* no step evaluated for the current pair gave a rank better than the
\* initial one
NoStepImproved ==
    \A i \in DOMAIN local.ranks : local.ranks[i] >= args.initial_ranking[local.alt + 1]

\* C12: with positions=None (and one initial rank per alternative) the call returns, with return_zeros=True, one
\* record per (alternative, criterion) pair in row-major order; the record of
\* a pair no step improved has change 0 and the initial rank as position;
\* with return_zeros=False only records whose position differs from the
\* initial rank are returned
C12_PromotionRecords ==
    (Promoting /\ ~args.positions.given
               /\ Len(args.initial_ranking) = args.matrix.rows) =>
        /\ (local.pc = "returned" /\ args.return_zeros) =>
              /\ Len(ret.data) = args.matrix.rows * args.matrix.cols
              /\ \A i \in DOMAIN ret.data :
                    <<ret.data[i][1], ret.data[i][2]>> =
                        RowMajorPairs(args.matrix.rows, args.matrix.cols)[i]
        /\ (local.pc = "sweep" /\ SweepOver(args, local) /\ NoStepImproved) =>
              /\ local.change = 0
              /\ 2 * local.new_position = args.initial_ranking[local.alt + 1]
        /\ (local.pc = "returned" /\ ~args.return_zeros) =>
              \A i \in DOMAIN ret.data :
                  2 * ret.data[i][4] # args.initial_ranking[ret.data[i][1] + 1]

\* the rank (in half units) that ends the sweep of the current pair
TargetRank2 ==
    IF args.positions.given THEN 2 * args.positions.v[local.alt + 1] ELSE 2

\* the step evaluated last for the current pair gave the target rank
TargetHit ==
    /\ Promoting
    /\ local.pc = "sweep"
    /\ local.ranks # <<>>
    /\ local.ranks[Len(local.ranks)] = TargetRank2

\* the pair after (alt, crit) in row-major order
NextPair(alt, crit) ==
    IF crit + 1 < args.matrix.cols THEN <<alt, crit + 1>> ELSE <<alt + 1, 0>>

\* C13: the sweep of a pair stops at the first evaluated step whose rank is
\* 1 (positions=None) or positions[alt]: no earlier step of the pair had the
\* target rank, and the step after a hit is never another evaluation of the
\* pair (returning or raising) but the move to the next pair, or the return
\* after the last pair
C13_StopAtTarget ==
    [][ /\ (Promoting /\ local.pc = "sweep") =>
              \A i \in 1 .. Len(local.ranks) - 1 : local.ranks[i] # TargetRank2
        /\ TargetHit =>
              /\ local'.pc # "raised"
              /\ local'.pc = "returned" =>
                    /\ local.alt = args.matrix.rows - 1
                    /\ local.crit = args.matrix.cols - 1
              /\ local'.pc # "returned" =>
                    /\ <<local'.alt, local'.crit>> = NextPair(local.alt, local.crit)
                    /\ local'.ranks = <<>> ]_vars

\* a sweep that hit its target while candidates were still left
C13_Witness ==
    /\ TargetHit
    /\ local.k < Len(promo_candidates(args, local))
    /\ args.positions.given
    /\ TargetRank2 = 4

\* the smallest of a non-empty set of numbers
Min(S) == CHOOSE x \in S : \A y \in S : x <= y

\* the best rank (in half units) the alternative had: the initial one or one
\* of the steps evaluated for the current pair
BestRank2 == Min({args.initial_ranking[local.alt + 1]} \cup Elems(local.ranks))

\* C14: with positions=None, when the sweep of a pair is over the position
\* about to be reported is the minimum of the initial rank and the ranks of
\* the evaluated steps, hence never worse than the initial rank, and the
\* change is the first candidate that gave this minimum (0 when no step
\* improved the initial rank)
C14_BestPosition ==
    (Promoting /\ local.pc = "sweep" /\ SweepOver(args, local)
               /\ ~args.positions.given
               /\ Len(args.initial_ranking) = args.matrix.rows) =>
        /\ 2 * local.new_position = BestRank2
        /\ 2 * local.new_position <= args.initial_ranking[local.alt + 1]
        /\ IF BestRank2 < args.initial_ranking[local.alt + 1]
           THEN \E i \in DOMAIN local.ranks :
                   /\ local.ranks[i] = BestRank2
                   /\ \A j \in 1 .. i - 1 : local.ranks[j] # BestRank2
                   /\ local.change = promo_candidates(args, local)[i]
           ELSE local.change = 0

\* C15: the step at which the evaluation raises ends the call with a
\* ValueError that carries the message of the original error and no data,
\* whatever records were collected before; nothing is evaluated afterwards
C15_MethodErrorRaised ==
    [][ /\ (Promoting /\ local.pc = "sweep" /\ local'.msg # "") =>
              /\ local'.pc = "raised"
              /\ ret'.err = "ValueError"
              /\ ret'.msg = local'.msg
              /\ ret'.data = <<>>
        /\ (Promoting /\ local.pc = "raised") => FALSE ]_vars

\* the evaluation raised after the records of earlier pairs were collected
C15_Witness ==
    /\ Promoting
    /\ local.pc = "raised"
    /\ local.results # <<>>
    /\ ret.err = "ValueError"

(***************************************************************************)
(* criteria/scenarios.py : generate_weights_scenarios.  The worker threads *)
(* share one stack and one result list; list.pop and list.append are each  *)
(* one indivisible step of the interpreter, and the threads interleave     *)
(* between them.  The frame keeps, besides the program's data, the log of  *)
(* which worker popped which task and the list of the tasks pushed.        *)
(***************************************************************************)
NumThreads == 2
MaxBelow == 1
MaxN == 3
MaxWork == 4

Workers == 1 .. NumThreads

Task(n, max_points, current) ==
    [n |-> n, max_points |-> max_points, current |-> current]

NoTask == Task(0, 0, <<>>)

\* the tuple appended for iteration i of a task with n = 2
scenario_result(task, i, step, precision) ==
    <<Round(i * step, precision), Round((task.max_points - i) * step, precision)>>
    \o [k \in DOMAIN task.current |-> Round(task.current[k] * step, precision)]

\* the task pushed for iteration i of a task with n # 2
scenario_subtask(task, i) ==
    Task(task.n - 1, i, <<task.max_points - i>> \o task.current)

\* the state after the threads were created: nothing popped yet
scenarios_start(n, step) ==
    LET first == Task(n, Hundred \div step, <<>>)
    IN  [pc |-> "workers",
         stack |-> <<first>>,
         results |-> <<>>,
         w |-> [t \in Workers |-> [pc |-> "pop", task |-> NoTask, i |-> 0]],
         taken |-> <<>>,
         pushed |-> <<first>>]

\* a pop that leaves the popped task on the stack for the next worker
worker_pop_shared(f, t) ==
    IF f.stack = <<>>
    THEN [f EXCEPT !.w[t].pc = "done"]
    ELSE [f EXCEPT !.w[t] = [pc |-> "loop", task |-> f.stack[Len(f.stack)], i |-> 0],
                   !.taken = Append(@, <<t, f.stack[Len(f.stack)]>>)]

\* n, max_points, current = stack.pop(): the worker leaves on an empty stack
worker_pop(f, t) ==
    IF f.stack = <<>>
    THEN [f EXCEPT !.w[t].pc = "done"]
    ELSE [f EXCEPT !.stack = SubSeq(@, 1, Len(@) - 1),
                   !.w[t] = [pc |-> "loop", task |-> f.stack[Len(f.stack)], i |-> 0],
                   !.taken = Append(@, <<t, f.stack[Len(f.stack)]>>)]

\* one iteration of the for loop of the worker: a result is appended (n = 2)
\* or a smaller task is pushed; after the last iteration the worker pops again
worker_iterate(f, t, step, precision) ==
    LET me   == f.w[t]
        next == IF me.i = me.task.max_points
                THEN [me EXCEPT !.pc = "pop"]
                ELSE [me EXCEPT !.i = me.i + 1]
    IN  IF me.task.n = 2
        THEN [f EXCEPT !.results = Append(@, scenario_result(me.task, me.i, step, precision)),
                       !.w[t] = next]
        ELSE [f EXCEPT !.stack = Append(@, scenario_subtask(me.task, me.i)),
                       !.pushed = Append(@, scenario_subtask(me.task, me.i)),
                       !.w[t] = next]

ScenarioSteps == {50, 40, 25}
Precisions == {0, 1, 2}

CallGenerateWeightsScenarios ==
    /\ op = "none"
    /\ \E n \in 2 .. MaxN, step \in ScenarioSteps, precision \in Precisions :
          /\ (Hundred \div step) * (n - 1) <= MaxWork
          /\ op' = "generate_weights_scenarios"
          /\ args' = [n |-> n, step |-> step, precision |-> precision]
          /\ local' = scenarios_start(n, step)
          /\ ret' = Pending

WorkerPop ==
    /\ op = "generate_weights_scenarios"
    /\ local.pc = "workers"
    /\ \E t \in Workers :
          /\ local.w[t].pc = "pop"
          /\ local' = worker_pop(local, t)
    /\ UNCHANGED <<op, args, ret>>

\* (a task more than MaxBelow under one criterion is not followed further)
WorkerIterate ==
    /\ op = "generate_weights_scenarios"
    /\ local.pc = "workers"
    /\ \E t \in Workers :
          /\ local.w[t].pc = "loop"
          /\ local.w[t].task.n + MaxBelow >= 1
          /\ local' = worker_iterate(local, t, args.step, args.precision)
    /\ UNCHANGED <<op, args, ret>>

\* every thread was joined: the result list is returned
ScenariosReturn ==
    /\ op = "generate_weights_scenarios"
    /\ local.pc = "workers"
    /\ \A t \in Workers : local.w[t].pc = "done"
    /\ local' = [local EXCEPT !.pc = "returned"]
    /\ ret' = Return(local.results)
    /\ UNCHANGED <<op, args>>

NextScenarios ==
    \/ CallGenerateWeightsScenarios
    \/ WorkerPop
    \/ WorkerIterate
    \/ ScenariosReturn

SpecScenarios == Init /\ [][NextScenarios]_vars

(***************************************************************************)
(* Properties of generate_weights_scenarios                                *)
(***************************************************************************)
Generating == op = "generate_weights_scenarios"

\* the compositions of p points into n non-negative parts
Compositions(n, p) ==
    {c \in [1 .. n -> 0 .. p] : SumSeq(c) = p}

\* the weight tuple of a composition: every part scaled by step and rounded
WeightTuple(c) == [k \in DOMAIN c |-> Round(c[k] * args.step, args.precision)]

Occurrences(seq, x) == Cardinality({k \in DOMAIN seq : seq[k] = x})

AllWorkersExited == \A t \in Workers : local.w[t].pc = "done"

\* C16: under every interleaving no task is popped twice (by the same or by
\* another worker) and only pushed tasks are popped; once all workers have
\* exited the stack is empty, every pushed task was popped, and the result
\* list holds one weight tuple per composition of int(1/step) points into n
\* parts: none missing, none more often than compositions map to it
C16_EachTaskOnce ==
    Generating =>
        /\ Distinct(local.pushed)
        /\ \A p, q \in DOMAIN local.taken :
              p # q => local.taken[p][2] # local.taken[q][2]
        /\ \A p \in DOMAIN local.taken : local.taken[p][2] \in Elems(local.pushed)
        /\ AllWorkersExited =>
              LET comps == Compositions(args.n, Hundred \div args.step)
              IN  /\ local.stack = <<>>
                  /\ \A p \in DOMAIN local.pushed :
                        \E q \in DOMAIN local.taken : local.taken[q][2] = local.pushed[p]
                  /\ Len(local.results) = Cardinality(comps)
                  /\ \A c \in comps :
                        Occurrences(local.results, WeightTuple(c)) =
                            Cardinality({d \in comps : WeightTuple(d) = WeightTuple(c)})
                  /\ (args.precision = 2) => Distinct(local.results)
        /\ local.pc = "returned" => ret.data = local.results

\* both workers processed tasks of a three-criteria call that has returned
C16_Witness ==
    /\ Generating
    /\ local.pc = "returned"
    /\ args.n = 3
    /\ {local.taken[p][1] : p \in DOMAIN local.taken} = Workers
    /\ Len(ret.data) >= 6

(***************************************************************************)
(* compromise/ICRA.py : iterative_compromise.  The methods are callables   *)
(* of the caller: one round is modelled as a choice of the preference      *)
(* vector each method returns.  Ranks are in half units (scipy rankdata    *)
(* gives tied values the average of their places).                         *)
(***************************************************************************)
MaxIters == 2

\* scipy.stats.rankdata(v), in half units: 2 * (smaller values) + (equal
\* values, the value itself included) + 1
rankdata2(v) ==
    [i \in DOMAIN v |->
        2 * Cardinality({j \in DOMAIN v : v[j] < v[i]})
        + Cardinality({j \in DOMAIN v : v[j] = v[i]}) + 1]

Negated(v) == [i \in DOMAIN v |-> 0 - v[i]]

\* the denominator of a correlation value: 8 * (N^4 + N^3 - N^2 - N)
WsUnit(n) == 8 * (n * n * n * n + n * n * n - n * n - n)

\* pymcdm.correlations.weighted_spearman(x, y) as a multiple of 1 / WsUnit:
\* 1 - 6 * sum((x - y)^2 * ((N - x + 1) + (N - y + 1))) / (N^4 + N^3 - N^2 - N)
weighted_spearman(x2, y2) ==
    LET n == Len(x2)
    IN  WsUnit(n) - 6 * SumSeq([i \in DOMAIN x2 |->
            (x2[i] - y2[i]) * (x2[i] - y2[i]) * (4 * n + 4 - x2[i] - y2[i])])

\* np.vstack(new_preferences).T : one row per alternative
PreferenceMatrix(prefs) ==
    [a \in DOMAIN prefs[1] |-> [m \in DOMAIN prefs |-> prefs[m][a]]]

\* the ranking of one method's preferences: rankdata(pref * -1) for type 1
icra_ranking(pref, type) ==
    IF type = 1 THEN rankdata2(Negated(pref)) ELSE rankdata2(pref)

\* the state before the while loop
icra_start(a) ==
    [pc |-> "loop",
     iters_number |-> 0,
     prev_rankings |-> a.rankings,
     matrix |-> a.preferences,
     corrs |-> [m \in 1 .. Len(a.rankings) |-> 0],
     internal_corrs |-> [m \in 1 .. Len(a.rankings) - 1 |-> 0],
     new_preferences |-> <<>>,
     new_rankings |-> <<>>,
     all_preferences |-> <<a.preferences>>,
     all_rankings |-> <<a.rankings>>,
     all_corrs |-> <<>>,
     computed |-> <<>>,
     notice |-> FALSE]

\* while np.any(internal_corrs != 1)
icra_goes_on(f) ==
    f.pc = "loop" /\ \E i \in DOMAIN f.internal_corrs :
                        f.internal_corrs[i] # WsUnit(Len(f.matrix))

\* one round of the loop, the methods returning prefs.  corrs is one array
\* created before the loop and overwritten element by element in every round;
\* all_corrs.append(corrs) appends that same array again, so every entry of
\* all_corrs shows its current content.  The field computed keeps what each
\* round computed.
icra_round(a, f, prefs) ==
    LET ranks == [m \in DOMAIN prefs |-> icra_ranking(prefs[m], a.types[m])]
        corrs == [m \in DOMAIN ranks |-> weighted_spearman(ranks[m], f.prev_rankings[m])]
    IN  [f EXCEPT
            !.iters_number = @ + 1,
            !.new_preferences = prefs,
            !.new_rankings = ranks,
            !.internal_corrs = [i \in DOMAIN @ |-> weighted_spearman(ranks[i], ranks[i + 1])],
            !.corrs = corrs,
            !.prev_rankings = ranks,
            !.matrix = PreferenceMatrix(prefs),
            !.all_corrs = [k \in 1 .. Len(@) + 1 |-> corrs],
            !.computed = Append(@, corrs),
            !.all_preferences = Append(@, PreferenceMatrix(prefs)),
            !.all_rankings = Append(@, ranks),
            !.pc = IF f.iters_number + 1 > a.max_iters THEN "exit" ELSE "loop",
            !.notice = f.iters_number + 1 > a.max_iters]

\* assign_results and the returned ICRAResults
icra_results(a, f) ==
    [initial_preferences |-> a.preferences,
     initial_rankings |-> a.rankings,
     final_preferences |-> f.new_preferences,
     final_rankings |-> f.new_rankings,
     iters_number |-> f.iters_number,
     all_preferences |-> f.all_preferences,
     all_rankings |-> f.all_rankings,
     all_corrs |-> f.all_corrs]

\* the preference vectors a method can return for two alternatives
PrefVectors == {<<1, 2>>, <<2, 1>>, <<1, 1>>}

IcraTypes(m) == IF m = 1 THEN {<<1>>} ELSE {<<1, 1>>, <<1, -1>>}

CallIterativeCompromise ==
    /\ op = "none"
    /\ \E m \in 1 .. 2, max_iters \in 0 .. MaxIters :
       \E prefs \in [1 .. m -> {<<1, 2>>, <<2, 1>>}], types \in IcraTypes(m) :
          LET a == [preferences |-> PreferenceMatrix(prefs),
                    rankings |-> [k \in 1 .. m |-> icra_ranking(prefs[k], types[k])],
                    types |-> types,
                    max_iters |-> max_iters]
          IN  /\ op' = "iterative_compromise"
              /\ args' = a
              /\ local' = icra_start(a)
              /\ ret' = Pending

IcraRound ==
    /\ op = "iterative_compromise"
    /\ icra_goes_on(local)
    /\ \E prefs \in [1 .. Len(args.rankings) -> PrefVectors] :
          local' = icra_round(args, local, prefs)
    /\ UNCHANGED <<op, args, ret>>

\* the loop is over: with no round executed new_preferences was never bound
\* and assign_results cannot be called
IcraReturn ==
    /\ op = "iterative_compromise"
    /\ local.pc \in {"loop", "exit"}
    /\ ~icra_goes_on(local)
    /\ local' = [local EXCEPT !.pc = "returned"]
    /\ ret' = IF local.iters_number = 0 THEN Raise("UnboundLocalError", 0)
              ELSE [err |-> "none", generated |-> local.iters_number,
                    data |-> icra_results(args, local)]
    /\ UNCHANGED <<op, args>>

NextIcra ==
    \/ CallIterativeCompromise
    \/ IcraRound
    \/ IcraReturn

SpecIcra == Init /\ [][NextIcra]_vars

(***************************************************************************)
(* Properties of iterative_compromise                                      *)
(***************************************************************************)
Compromising == op = "iterative_compromise"

\* C17: the call executes at most max_iters rounds, reports non-convergence
\* only when it leaves the loop on the limit, and then returns normally
C17_AtMostMaxIters ==
    Compromising =>
        /\ local.iters_number <= args.max_iters
        /\ local.notice => local.pc \in {"exit", "returned"}
        /\ (local.pc = "returned" /\ local.iters_number > 0) => ret.err = "none"

\* C18: the returned histories hold the initial inputs followed by one entry
\* per round, and all_corrs[r] is what round r+1 computed
C18_HistoriesAreSnapshots ==
    (Compromising /\ local.pc = "returned" /\ ret.err = "none") =>
        /\ Len(ret.data.all_preferences) = local.iters_number + 1
        /\ Len(ret.data.all_rankings) = local.iters_number + 1
        /\ ret.data.all_preferences[1] = args.preferences
        /\ ret.data.all_rankings[1] = args.rankings
        /\ Len(ret.data.all_corrs) = local.iters_number
        /\ \A r \in DOMAIN ret.data.all_corrs :
              /\ ret.data.all_corrs[r] = local.computed[r]
              /\ ret.data.all_corrs[r] =
                    [m \in DOMAIN args.types |->
                        weighted_spearman(ret.data.all_rankings[r + 1][m],
                                          ret.data.all_rankings[r][m])]

(***************************************************************************)
(* compromise/HQ_compromise.py : HQ_compromise.  The consensus vector is   *)
(* kept as an exact fraction [unit, num] (entry k is num[k] / unit).  The  *)
(* kernel exp(-s^2 / (2 sigma^2)) has no exact value: when sigma is 0 it   *)
(* is 0/0, a NaN; when s is 0 and sigma is not, it is 1; otherwise it is a *)
(* number in (0, 1], chosen among AlphaScale levels, the same for equal    *)
(* distances and never larger for a larger distance.  A NaN makes every    *)
(* later value a NaN and every comparison false.                           *)
(***************************************************************************)
MaxHQIters == 3
AlphaScale == 2

\* R_star = 1/M * np.sum(R, axis=1)
hq_mean(R) ==
    [unit |-> Len(R[1]), num |-> [k \in DOMAIN R |-> SumSeq(R[k])]]

\* __euc_dist__(R[:, i], R_star) ** 2, as a multiple of 1 / unit^2
hq_dist_sq(R, R_star, i) ==
    SumSeq([k \in DOMAIN R |->
        (R[k][i] * R_star.unit - R_star.num[k]) * (R[k][i] * R_star.unit - R_star.num[k])])

\* sigma is 0 exactly when every ranking is at distance 0 of the consensus
hq_sigma_is_zero(R, R_star) ==
    \A i \in DOMAIN R[1] : hq_dist_sq(R, R_star, i) = 0

\* the kernel values the iteration can produce for the rankings of R
hq_alphas(R, R_star) ==
    {alpha \in [DOMAIN R[1] -> 1 .. AlphaScale] :
        /\ \A i \in DOMAIN alpha : hq_dist_sq(R, R_star, i) = 0 => alpha[i] = AlphaScale
        /\ \A i, j \in DOMAIN alpha :
              /\ hq_dist_sq(R, R_star, i) = hq_dist_sq(R, R_star, j) => alpha[i] = alpha[j]
              /\ hq_dist_sq(R, R_star, i) < hq_dist_sq(R, R_star, j) => alpha[i] >= alpha[j]}

\* __euc_dist__(R_star_old, R_star) <= tol, tol in hundredths
hq_consensus_close(old, new, tol) ==
    SumSeq([k \in DOMAIN old.num |->
        (old.num[k] * new.unit - new.num[k] * old.unit)
        * (old.num[k] * new.unit - new.num[k] * old.unit)]) * Hundred * Hundred
    <= tol * tol * old.unit * old.unit * new.unit * new.unit

\* __euc_dist__(old_alpha, alpha) <= tol
hq_alpha_close(old, new, tol) ==
    SumSeq([i \in DOMAIN old |-> (old[i] - new[i]) * (old[i] - new[i])]) * Hundred * Hundred
    <= tol * tol * AlphaScale * AlphaScale

\* the state before the while loop: sigma and w are not bound yet
hq_start(R) ==
    [pc |-> "loop", iter |-> 0, R_star |-> hq_mean(R),
     alpha |-> [i \in DOMAIN R[1] |-> 0],
     w |-> [unit |-> 0, num |-> <<>>],
     bound |-> FALSE, nan |-> FALSE, converged |-> FALSE, notice |-> FALSE]

\* one pass of the loop in which the kernel gave alpha (a NaN pass when sigma
\* is 0 or the values are NaN already)
hq_iterate(R, f, alpha, tol) ==
    IF f.nan \/ hq_sigma_is_zero(R, f.R_star)
    THEN [f EXCEPT !.iter = @ + 1, !.nan = TRUE, !.bound = TRUE]
    ELSE LET w      == [unit |-> SumSeq(alpha), num |-> alpha]
             R_star == [unit |-> SumSeq(alpha),
                        num |-> [k \in DOMAIN R |->
                                    SumSeq([i \in DOMAIN alpha |-> R[k][i] * alpha[i]])]]
             close  == /\ hq_consensus_close(f.R_star, R_star, tol)
                       /\ hq_alpha_close(f.alpha, alpha, tol)
         IN  [f EXCEPT !.iter = @ + 1, !.alpha = alpha, !.w = w, !.R_star = R_star,
                       !.bound = TRUE, !.converged = close,
                       !.pc = IF close THEN "exit" ELSE "loop"]

\* two alternatives ranked by one to three methods (one column per method)
HQRankings ==
    UNION {{[k \in 1 .. 2 |-> [i \in 1 .. m |-> cols[i][k]]] :
               cols \in [1 .. m -> {<<1, 2>>, <<2, 1>>}]} : m \in 1 .. 3}

Tolerances == {1, 150}

CallHQCompromise ==
    /\ op = "none"
    /\ \E R \in HQRankings, max_iters \in 0 .. MaxHQIters, tol \in Tolerances :
          /\ op' = "HQ_compromise"
          /\ args' = [R |-> R, max_iters |-> max_iters, tol |-> tol]
          /\ local' = hq_start(R)
          /\ ret' = Pending

HQIterate ==
    /\ op = "HQ_compromise"
    /\ local.pc = "loop"
    /\ local.iter < args.max_iters
    /\ \E alpha \in hq_alphas(args.R, local.R_star) :
          local' = hq_iterate(args.R, local, alpha, args.tol)
    /\ UNCHANGED <<op, args, ret>>

\* after the loop: the notice, then __indicators__(R, R_star, sigma, w), which
\* needs sigma and w to have been bound by a pass of the loop
HQReturn ==
    /\ op = "HQ_compromise"
    /\ \/ local.pc = "exit"
       \/ local.pc = "loop" /\ local.iter >= args.max_iters
    /\ local' = [local EXCEPT !.pc = "returned", !.notice = (local.iter = args.max_iters)]
    /\ ret' = IF ~local.bound THEN Raise("UnboundLocalError", 0)
              ELSE [err |-> "none", generated |-> local.iter,
                    data |-> [nan |-> local.nan, w |-> local.w, R_star |-> local.R_star]]
    /\ UNCHANGED <<op, args>>

NextHQ ==
    \/ CallHQCompromise
    \/ HQIterate
    \/ HQReturn

SpecHQ == Init /\ [][NextHQ]_vars

(***************************************************************************)
(* Properties of HQ_compromise                                             *)
(***************************************************************************)
\* C19: at most max_iters iterations; no iteration after the one that
\* converged; when the limit is reached without convergence the notice is
\* produced and the call still returns; the returned weights sum to 1
C19_BoundedAndNormalised ==
    (op = "HQ_compromise") =>
        /\ local.iter <= args.max_iters
        /\ (local.converged /\ local.pc = "loop") => FALSE
        /\ (local.pc = "returned" /\ ~local.converged /\ local.iter = args.max_iters) =>
              /\ local.notice
              /\ ret.err = "none"
        /\ (local.pc = "returned") =>
              /\ ret.err = "none"
              /\ ~ret.data.nan
              /\ ret.data.w.unit > 0
              /\ SumSeq(ret.data.w.num) = ret.data.w.unit

(***************************************************************************)
(* compromise/borda.py : borda.  rankings has one row per alternative and  *)
(* one column per method; the result is in half units (rank 1.5 is 3).     *)
(***************************************************************************)
MaxAlts == 3
MaxMethods == 2

\* count = np.sum((alt_num + 1) - rankings, axis=1)
borda_count(rankings) ==
    [i \in DOMAIN rankings |->
        SumSeq([m \in DOMAIN rankings[i] |-> (Len(rankings) + 1) - rankings[i][m]])]

\* the ranks of the scores themselves: the lowest score comes first
borda_ascending(rankings) == rankdata2(borda_count(rankings))

\* return rankdata(-count)
borda(rankings) == rankdata2(Negated(borda_count(rankings)))

\* the rankings of the docstring and of test_borda
BordaExample == << <<3, 2, 3>>, <<4, 4, 4>>, <<2, 3, 2>>, <<1, 1, 1>> >>

\* every n x m table of places 1..n (columns need not be permutations)
BordaRankings ==
    UNION {[1 .. n -> [1 .. m -> 1 .. n]] : n \in 1 .. MaxAlts, m \in 1 .. MaxMethods}

CallBorda ==
    /\ op = "none"
    /\ UNCHANGED local
    /\ \E rankings \in BordaRankings :
          /\ op' = "borda"
          /\ args' = [rankings |-> rankings]
          /\ ret' = Return(borda(rankings))

CallBordaExample ==
    /\ op = "none"
    /\ UNCHANGED local
    /\ op' = "borda"
    /\ args' = [rankings |-> BordaExample]
    /\ ret' = Return(borda(BordaExample))

NextBorda ==
    \/ CallBorda
    \/ CallBordaExample

SpecBorda == Init /\ [][NextBorda]_vars

\* the Borda score of alternative i: the sum over the methods of N + 1 - rank
BordaScore(i) ==
    SumSeq([m \in DOMAIN args.rankings[i] |->
        Len(args.rankings) + 1 - args.rankings[i][m]])

\* C20: an alternative with a strictly higher Borda score gets a strictly
\* smaller rank, equal scores get equal ranks, the best rank is at least 1
\* and the rankings of the example give [3, 4, 2, 1]
C20_BordaRanks ==
    (op = "borda") =>
        /\ Len(ret.data) = Len(args.rankings)
        /\ \A i, j \in DOMAIN ret.data :
              /\ BordaScore(i) > BordaScore(j) => ret.data[i] < ret.data[j]
              /\ BordaScore(i) = BordaScore(j) => ret.data[i] = ret.data[j]
        /\ \A i \in DOMAIN ret.data :
              ret.data[i] = 2 * Cardinality({j \in DOMAIN ret.data : BordaScore(j) > BordaScore(i)})
                            + Cardinality({j \in DOMAIN ret.data : BordaScore(j) = BordaScore(i)}) + 1
        /\ args.rankings = BordaExample => ret.data = <<2 * 3, 2 * 4, 2 * 2, 2 * 1>>

\* the example was ranked, scores 7, 3, 8 and 12
C20_Witness ==
    /\ op = "borda"
    /\ args.rankings = BordaExample
    /\ [i \in DOMAIN args.rankings |-> BordaScore(i)] = <<7, 3, 8, 12>>
    /\ ret.data = <<6, 8, 4, 2>>

\* two alternatives tied on the score, a third one behind them
C20_TieWitness ==
    /\ op = "borda"
    /\ Len(args.rankings) = 3
    /\ ret.data = <<3, 3, 6>>

(***************************************************************************)
(* compromise/dominance_directed_graph.py : dominance_directed_graph.      *)
(* rankings has one row per alternative and one column per method; the     *)
(* result is in half units.                                                *)
(***************************************************************************)
\* the matrix whose entry [i][j] is 1 when alternative j has the smaller rank
dominance_matrix_reversed(rankings, method_idx) ==
    [i \in DOMAIN rankings |-> [j \in DOMAIN rankings |->
        IF rankings[j][method_idx] < rankings[i][method_idx] THEN 1 ELSE 0]]

\* A[idx, np.where(ranking > ranking[idx])] += 1 for every idx
dominance_matrix(rankings, method_idx) ==
    [i \in DOMAIN rankings |-> [j \in DOMAIN rankings |->
        IF rankings[j][method_idx] > rankings[i][method_idx] THEN 1 ELSE 0]]

\* matrix_power(A, 2)
MatrixSquare(A) ==
    [i \in DOMAIN A |-> [j \in DOMAIN A |->
        SumSeq([k \in DOMAIN A |-> A[i][k] * A[k][j]])]]

\* enhanced_dominant_matrix = A + matrix_power(A, 2)
enhanced_dominant_matrix(A) ==
    [i \in DOMAIN A |-> [j \in DOMAIN A |-> A[i][j] + MatrixSquare(A)[i][j]]]

\* np.sum(final_points, axis=1): the row sums of the matrices of all methods
dominance_points(rankings) ==
    [i \in DOMAIN rankings |->
        SumSeq([m \in DOMAIN rankings[1] |->
            SumSeq(enhanced_dominant_matrix(dominance_matrix(rankings, m))[i])])]

\* return rankdata(-np.sum(final_points, axis=1))
dominance_directed_graph(rankings) == rankdata2(Negated(dominance_points(rankings)))

CallDominance ==
    /\ op = "none"
    /\ UNCHANGED local
    /\ \E rankings \in BordaRankings :
          /\ op' = "dominance_directed_graph"
          /\ args' = [rankings |-> rankings]
          /\ ret' = Return(dominance_directed_graph(rankings))

CallDominanceExample ==
    /\ op = "none"
    /\ UNCHANGED local
    /\ op' = "dominance_directed_graph"
    /\ args' = [rankings |-> BordaExample]
    /\ ret' = Return(dominance_directed_graph(BordaExample))

NextDominance ==
    \/ CallDominance
    \/ CallDominanceExample

SpecDominance == Init /\ [][NextDominance]_vars

\* the alternatives that method m ranks worse than alternative i
WorseThan(i, m) ==
    {j \in DOMAIN args.rankings : args.rankings[j][m] > args.rankings[i][m]}

\* the accumulated dominance of alternative i: over all methods, the number
\* of alternatives it dominates in one step plus the number of two-step chains
Dominance(i) ==
    SumSeq([m \in DOMAIN args.rankings[1] |->
        Cardinality(WorseThan(i, m))
        + SumSeq([j \in DOMAIN args.rankings |->
                    IF j \in WorseThan(i, m) THEN Cardinality(WorseThan(j, m)) ELSE 0])])

\* C21: the result ranks the alternatives by accumulated dominance (one-step
\* plus two-step, summed over the columns): a larger dominance gives a
\* smaller rank, equal dominance an equal (average) rank, and the rankings of
\* the example give [3, 4, 2, 1]
C21_DominanceRanks ==
    (op = "dominance_directed_graph") =>
        /\ Len(ret.data) = Len(args.rankings)
        /\ \A i, j \in DOMAIN ret.data :
              Dominance(i) > Dominance(j) => ret.data[i] < ret.data[j]
        /\ \A i \in DOMAIN ret.data :
              ret.data[i] = 2 * Cardinality({j \in DOMAIN ret.data : Dominance(j) > Dominance(i)})
                            + Cardinality({j \in DOMAIN ret.data : Dominance(j) = Dominance(i)}) + 1
        /\ args.rankings = BordaExample => ret.data = <<2 * 3, 2 * 4, 2 * 2, 2 * 1>>

\* the example was ranked
C21_Witness ==
    /\ op = "dominance_directed_graph"
    /\ args.rankings = BordaExample
    /\ ret.data = <<6, 8, 4, 2>>
    /\ Dominance(4) > Dominance(3)

(***************************************************************************)
(* Two calls in a row.  None of the modification and removal functions     *)
(* keeps anything between calls (no module-level state, no default         *)
(* argument that is written), and each of them writes only to              *)
(* matrix.copy().astype(float) or to the arrays np.delete returns: the     *)
(* second call therefore starts from the arguments as the first call left  *)
(* them.                                                                   *)
(***************************************************************************)
ModificationOps ==
    {"discrete_modification", "range_modification", "single_percentage",
     "multiple_percentage", "remove_alternatives", "remove_single", "remove_multiple"}

\* the arguments after a call that wrote its first scenario value through to
\* the caller's matrix
inputs_after_written(a) ==
    [a EXCEPT !.matrix.cell[0][0] = @ + Hundred]

\* the arguments after a call: every write went to a copy
inputs_after(a) == a

\* the call of the function named f on the arguments a
engine_call(f, a) ==
    CASE f = "discrete_modification" ->
            discrete_modification(a.matrix, a.discrete_values, a.indexes)
      [] f = "range_modification" ->
            range_modification(a.matrix, a.range_values, a.indexes, a.step)
      [] f = "single_percentage" ->
            single_percentage(a.matrix, a.percentages, a.steps, a.direction)
      [] f = "multiple_percentage" ->
            multiple_percentage(a.matrix, a.percentages, a.steps, a.combinations, a.direction)
      [] f = "remove_alternatives" -> remove_alternatives(a.matrix, a.indexes)
      [] f = "remove_single" -> remove_single(a.matrix, a.weights, a.combinations)
      [] f = "remove_multiple" ->
            remove_multiple(a.matrix, a.weights, a.combinations, a.keep)

\* the same function is called once more with the same argument objects
CallAgain ==
    /\ op \in ModificationOps
    /\ local = Idle
    /\ local' = [pc |-> "again",
                 args |-> inputs_after(args),
                 ret |-> engine_call(op, inputs_after(args))]
    /\ UNCHANGED <<op, args, ret>>

NextTwice ==
    \/ CallDiscrete
    \/ CallRange
    \/ CallSinglePercentage
    \/ CallMultiplePercentage
    \/ CallRemoveAlternatives
    \/ CallRemoveSingle
    \/ CallRemoveMultiple
    \/ CallAgain

SpecTwice == Init /\ [][NextTwice]_vars

NonArrays ==
    {[kind |-> "int", value |-> 1],
     [kind |-> "str", value |-> "invalid"],
     [kind |-> "list", value |-> ExampleMatrix]}

\* the first thing each function does with its main argument x:
\*   discrete_modification, range_modification, ranking_promotion test
\*     isinstance(x, np.ndarray) and raise TypeError;
\*   remove_alternatives converts with np.array(x): a number or a string
\*     becomes an array without axes, whose shape[1] is an IndexError, and a
\*     nested list becomes the matrix it spells;
\*   borda, dominance_directed_graph and HQ_compromise read x.shape, which a
\*     value that is no array does not have (AttributeError)
non_array_outcome(f, x) ==
    CASE f \in {"discrete_modification", "range_modification", "ranking_promotion"} ->
            Raise("TypeError", 0)
      [] f = "remove_alternatives" ->
            IF x.kind = "list" THEN remove_alternatives(x.value, RemovalNone)
            ELSE Raise("IndexError", 0)
      [] f \in {"borda", "dominance_directed_graph", "HQ_compromise"} ->
            Raise("AttributeError", 0)

TypeCheckedEngines ==
    {"discrete_modification", "range_modification", "ranking_promotion",
     "remove_alternatives", "borda", "dominance_directed_graph", "HQ_compromise"}

CallNonArray ==
    /\ op = "none"
    /\ UNCHANGED local
    /\ \E f \in TypeCheckedEngines, x \in NonArrays :
          /\ op' = f
          /\ args' = [main |-> x]
          /\ ret' = non_array_outcome(f, x)

NextTypes ==
    \/ CallNonArray
    \/ CallDiscreteExample
    \/ CallRangeExample
    \/ CallRemoveAlternatives
    \/ CallBorda

SpecTypes == Init /\ [][NextTypes]_vars

\* C23: a call whose main array argument is not a numpy array raises
\* TypeError and produces nothing
C23_TypeErrorOnNonArray ==
    (op # "none" /\ "main" \in DOMAIN args) =>
        /\ ret.err = "TypeError"
        /\ ret.generated = 0
        /\ ret.data = <<>>

(***************************************************************************)
(* Change specifications of any shape, matching the matrix or not          *)
(***************************************************************************)
ConstLens(c) == [j \in Rng(c) |-> 2]

CallDiscreteShapes ==
    /\ op = "none"
    /\ UNCHANGED local
    /\ \E m \in IndexMatrices, r \in 1 .. MaxRows + 1, c \in 1 .. MaxCols + 1 :
         \E dv \in {DV2(c, ConstLens(c)), DV2(c, RampLens(c)),
                    DV3(r, c, ConstLens(c), 0), DV3(r, c, RampLens(c), 0)} :
           /\ op' = "discrete_modification"
           /\ args' = [matrix |-> m, discrete_values |-> dv, indexes |-> NoIndexes]
           /\ ret' = discrete_modification(m, dv, NoIndexes)

CallRangeShapes ==
    /\ op = "none"
    /\ UNCHANGED local
    /\ \E m \in IndexMatrices, r \in 1 .. MaxRows + 1, c \in 1 .. MaxCols + 1 :
         \E rv \in {RV2(c, 1), RV3(r, c, 1)} :
           /\ op' = "range_modification"
           /\ args' = [matrix |-> m, range_values |-> rv, indexes |-> NoIndexes,
                       step |-> ScalarStep(50)]
           /\ ret' = range_modification(m, rv, NoIndexes, ScalarStep(50))

NextShapes ==
    \/ CallDiscreteShapes
    \/ CallRangeShapes

SpecShapes == Init /\ [][NextShapes]_vars

\* the change specification of the call
ChangeSpec ==
    IF op = "discrete_modification" THEN args.discrete_values ELSE args.range_values

\* C24: a per-column specification that has not one row per matrix column,
\* and a per-cell specification that differs from the matrix in the number of
\* rows or in the number of columns, is rejected with ValueError
C24_ShapeMismatchRejected ==
    (op \in {"discrete_modification", "range_modification"}) =>
        /\ (ChangeSpec.dim = 2 /\ ChangeSpec.n0 # args.matrix.cols) =>
              ret.err = "ValueError"
        /\ (ChangeSpec.dim = 3 /\ (ChangeSpec.n0 # args.matrix.rows
                                   \/ ChangeSpec.n1 # args.matrix.cols)) =>
              ret.err = "ValueError"

PercentTuple(a, alt, criteria, s) ==
    Product([p \in DOMAIN criteria |->
        single_thresholds(a.percentages, a.steps, alt, criteria[p])])[s + 1]

\* the scenario sc has the cells of its combination set to the values of its
\* tuple and every other cell as in the input
WholeScenario(a, sc, increase) ==
    LET percents == PercentTuple(a, sc.alt, sc.crit, sc.s)
        new(p)   == percent_new_value(a.matrix.cell[sc.alt][sc.crit[p]],
                                      percents[p], increase)
    IN  /\ \A p \in DOMAIN sc.crit :
              /\ sc.matrix.cell[sc.alt][sc.crit[p]] = new(p)
              /\ increase \/ new(p) >= 0
        /\ \A i \in Rng(a.matrix.rows), j \in Rng(a.matrix.cols) :
              (i # sc.alt \/ j \notin Elems(sc.crit)) =>
                  sc.matrix.cell[i][j] = a.matrix.cell[i][j]

\* C26: every scenario recorded by multiple_percentage has all the cells of
\* its combination set to value +/- value * percent for its tuple of the
\* product and every other cell equal to the input, and a decrease with a
\* negative result records nothing
C26_WholeTuplesOnly ==
    (op = "multiple_percentage" /\ local = Idle /\ ret.err = "none") =>
        /\ \A x \in DOMAIN ret.data.increases :
              WholeScenario(args, ret.data.increases[x], TRUE)
        /\ \A x \in DOMAIN ret.data.decreases :
              WholeScenario(args, ret.data.decreases[x], FALSE)

(***************************************************************************)
(* Properties of ranking_promotion with positions given                    *)
(***************************************************************************)
\* the sweep of the current pair is over, positions are given with one
\* entry per alternative, and every rank involved is a whole number
TargetedSweepOver ==
    /\ Promoting
    /\ local.pc = "sweep"
    /\ SweepOver(args, local)
    /\ args.positions.given
    /\ Len(args.initial_ranking) = args.matrix.rows
    /\ Len(args.positions.v) = args.matrix.rows
    /\ args.initial_ranking[local.alt + 1] % 2 = 0
    /\ \A i \in DOMAIN local.ranks : local.ranks[i] % 2 = 0

\* C27: with positions given, the record of a pair reports the rank observed
\* at an evaluated step with that step's candidate as change, or the initial
\* rank with change 0; a pair no step of which gave a better rank than the
\* initial one is reported as no movement, and not at all when
\* return_zeros=False
C27_ReportedPositionObtained ==
    TargetedSweepOver =>
        /\ \/ \E i \in DOMAIN local.ranks :
                 /\ local.ranks[i] = 2 * local.new_position
                 /\ local.change = promo_candidates(args, local)[i]
           \/ /\ 2 * local.new_position = args.initial_ranking[local.alt + 1]
              /\ local.change = 0
        /\ NoStepImproved =>
              /\ 2 * local.new_position = args.initial_ranking[local.alt + 1]
              /\ local.change = 0
              /\ ~args.return_zeros => promo_record(args, local) = <<>>

(***************************************************************************)
(* Properties of the argument checks of ranking_promotion                  *)
(***************************************************************************)
\* the values of the arguments are acceptable whatever the lengths are
PromoValuesValid ==
    /\ \A p \in DOMAIN args.direction : args.direction[p] \in {-1, 1}
    /\ args.bounds.given \/ args.max_modification # 0
    /\ args.positions.given =>
          \A p \in DOMAIN args.positions.v :
              /\ args.positions.v[p] >= 1
              /\ args.positions.v[p] <= args.matrix.rows
              /\ args.positions.v[p] <= Len(args.positions.v)

\* one initial rank (and target position) per row, one direction per column
PromoLengthsConsistent ==
    /\ Len(args.initial_ranking) = args.matrix.rows
    /\ Len(args.direction) = args.matrix.cols
    /\ args.positions.given => Len(args.positions.v) = args.matrix.rows

\* C28: with acceptable values, ranking_promotion rejects the call with
\* ValueError exactly when initial_ranking or positions has not one entry per
\* row or direction has not one entry per column; a call with consistent
\* lengths is accepted and never runs out of an argument
C28_LengthsChecked ==
    (op = "ranking_promotion" /\ PromoValuesValid) =>
        /\ (local = Idle /\ ret.err = "ValueError") <=> ~PromoLengthsConsistent
        /\ PromoLengthsConsistent => (local # Idle /\ local.pc # "failed")

(***************************************************************************)
(* criteria/identification.py : relevance_identification                   *)
(*                                                                         *)
(* The evaluation method is the caller's: what it returns is an input of   *)
(* every round, here the distance between the reference preferences and    *)
(* the preferences without one criterion.  A matrix is followed by the     *)
(* original indices of the columns it still has.                           *)
(***************************************************************************)
MaxIdentCols == 3

\* the position (from 1) of index idx in a Python list or along an axis of
\* n elements, negative indices counting from the end; 0 when out of range
PyIndex(n, idx) ==
    IF idx >= 0 /\ idx < n THEN idx + 1
    ELSE IF idx < 0 /\ idx >= 0 - n THEN n + idx + 1
    ELSE 0

\* np.delete(matrix, obj, axis=1) on the columns cols
np_delete(cols, obj) ==
    IF \E p \in DOMAIN obj : PyIndex(Len(cols), obj[p]) = 0
    THEN [err |-> "IndexError", cols |-> <<>>]
    ELSE [err |-> "none",
          cols |-> SelectSeq(cols, LAMBDA c :
                      \A p \in DOMAIN obj :
                          cols[PyIndex(Len(cols), obj[p])] # c)]

\* the argument checks of relevance_identification
identification_check(a) ==
    IF a.excluded_criteria <= 0 THEN "ValueError"
    ELSE IF a.excluded_criteria > a.cols THEN "ValueError"
    ELSE "none"

\* the frame of the call before the first round
ident_start(a) ==
    [pc |-> "round", round |-> 0, excluded |-> <<>>, results |-> <<>>,
     cands |-> <<>>, dist |-> <<>>, new_cols |-> [c \in 1 .. a.cols |-> c - 1],
     kwargs_cols |-> [c \in 1 .. a.cols |-> c - 1], err |-> "none"]

\* the criteria evaluated in a round: for i in range(initial_matrix.shape[1])
\* with those in excluded skipped
ident_candidates(a, excluded) ==
    SelectSeq([c \in 1 .. a.cols |-> c - 1], LAMBDA i : i \notin Elems(excluded))

\* index = i - len([e_idx for e_idx in excluded if e_idx < i])
ident_index(excluded, i) ==
    i - Cardinality({p \in DOMAIN excluded : excluded[p] < i})

\* the position in temp_results of the evaluation with the least distance
\* below min_distance = new_matrix.shape[0] (the first of them), 0 if none
ident_min_position(a, dist) ==
    LET below == {k \in DOMAIN dist : dist[k] < Hundred * a.rows}
    IN  IF below = {} THEN 0
        ELSE CHOOSE k \in below :
                /\ \A l \in below : dist[k] <= dist[l]
                /\ \A l \in below : l < k => dist[l] > dist[k]

\* one round of the loop with the method returning at every call: the
\* excluded columns are deleted, every remaining criterion i is removed in
\* turn (at its index in the reduced matrix), the index of the least
\* distance is appended to excluded and its entry of temp_results to the
\* results; the caller's dictionary is left with the last matrix evaluated
ident_round(a, f, dist) ==
    LET new   == np_delete([c \in 1 .. a.cols |-> c - 1], f.excluded)
        cands == ident_candidates(a, f.excluded)
        index(x) == ident_index(f.excluded, cands[x])
        mod(x)   == np_delete(new.cols, <<index(x)>>)
        k     == ident_min_position(a, dist)
        pos   == IF k = 0 THEN 0 ELSE PyIndex(Len(cands), index(k))
    IN  IF new.err # "none" \/ \E x \in DOMAIN cands : mod(x).err # "none"
        THEN [f EXCEPT !.pc = "failed", !.err = "IndexError"]
        ELSE IF k = 0
        THEN [f EXCEPT !.pc = "failed", !.err = "TypeError",
                       !.cands = cands, !.dist = dist, !.new_cols = new.cols]
        ELSE IF pos = 0
        THEN [f EXCEPT !.pc = "failed", !.err = "IndexError",
                       !.cands = cands, !.dist = dist, !.new_cols = new.cols]
        ELSE [f EXCEPT !.pc = IF f.round + 1 = a.excluded_criteria
                              THEN "returned" ELSE "round",
                       !.round = f.round + 1,
                       !.excluded = Append(f.excluded, index(k)),
                       !.results = Append(f.results,
                                      [idx |-> f.excluded \o <<cands[pos]>>,
                                       cols |-> mod(pos).cols]),
                       !.cands = cands, !.dist = dist, !.new_cols = new.cols,
                       !.kwargs_cols = mod(Len(cands)).cols]

\* the method raises: at the reference evaluation the error is wrapped in a
\* ValueError, at the evaluation of a removal it is raised as it is
ident_raise(f, stage) ==
    [f EXCEPT !.pc = "raised",
              !.err = IF stage = "reference" THEN "ValueError" ELSE "MethodError"]

\* what the caller has got when the frame is in state f
ident_outcome(f) ==
    CASE f.pc = "returned" -> Return(f.results)
      [] f.pc \in {"failed", "raised"} -> Raise(f.err, 0)
      [] OTHER -> Pending

\* the distances the evaluations of a round of an r-row matrix can give
IdentDistances(r) == {0, Hundred \div 2, Hundred * r}

CallRelevanceIdentification ==
    /\ op = "none"
    /\ \E r \in 1 .. MaxRows, c \in 1 .. MaxIdentCols :
       \E e \in 0 .. c + 1 :
          LET a == [rows |-> r, cols |-> c, excluded_criteria |-> e]
          IN  /\ op' = "relevance_identification"
              /\ args' = a
              /\ local' = IF identification_check(a) = "none" THEN ident_start(a)
                          ELSE Idle
              /\ ret' = IF identification_check(a) = "none" THEN Pending
                        ELSE Raise(identification_check(a), 0)

IdentRound ==
    /\ op = "relevance_identification"
    /\ local # Idle
    /\ local.pc = "round"
    /\ \E dist \in [1 .. Len(ident_candidates(args, local.excluded)) ->
                       IdentDistances(args.rows)] :
          /\ local' = ident_round(args, local, dist)
          /\ ret' = ident_outcome(local')
    /\ UNCHANGED <<op, args>>

IdentRaise ==
    /\ op = "relevance_identification"
    /\ local # Idle
    /\ local.pc = "round"
    /\ \E stage \in {"reference", "removal"} :
          /\ local' = ident_raise(local, stage)
          /\ ret' = ident_outcome(local')
    /\ UNCHANGED <<op, args>>

NextIdentification ==
    \/ CallRelevanceIdentification
    \/ IdentRound
    \/ IdentRaise

SpecIdentification == Init /\ [][NextIdentification]_vars

(***************************************************************************)
(* Properties of relevance_identification                                  *)
(***************************************************************************)
Identifying == op = "relevance_identification" /\ local # Idle

\* C29: the call runs excluded_criteria rounds; each round evaluates every
\* criterion not excluded so far and picks one of least distance; the r-th
\* result lists r distinct original column indices, the one picked last is
\* added to the excluded ones, and the next round works on the matrix
\* without exactly the columns listed
C29_RoundsExcludeOriginals ==
    (Identifying /\ local.pc \in {"round", "returned"}) =>
        /\ local.pc = "returned" => Len(local.results) = args.excluded_criteria
        /\ Len(local.results) = local.round
        /\ \A r \in DOMAIN local.results :
              /\ Len(local.results[r].idx) = r
              /\ Distinct(local.results[r].idx)
              /\ Elems(local.results[r].idx) \subseteq Rng(args.cols)
              /\ r > 1 => SubSeq(local.results[r].idx, 1, r - 1) = local.results[r - 1].idx
        /\ local.round > 0 =>
              /\ Elems(local.excluded) = Elems(local.results[local.round].idx)
              /\ Elems(local.cands) =
                    Rng(args.cols) \ Elems(SubSeq(local.results[local.round].idx,
                                                  1, local.round - 1))
              /\ \E k \in DOMAIN local.cands :
                    /\ local.cands[k] = local.results[local.round].idx[local.round]
                    /\ \A l \in DOMAIN local.dist : local.dist[k] <= local.dist[l]
              /\ local.round > 1 =>
                    Elems(local.new_cols) =
                        Rng(args.cols) \ Elems(local.results[local.round - 1].idx)

(***************************************************************************)
(* generate_weights_scenarios with one or two criteria                     *)
(***************************************************************************)
\* steps of 1 and 2: int(1 / step) is 1 and 0
CoarseSteps == {Hundred, 2 * Hundred}

CallGenerateWeightsScenariosFew ==
    /\ op = "none"
    /\ \E n \in 1 .. 2, step \in CoarseSteps, precision \in Precisions :
          /\ op' = "generate_weights_scenarios"
          /\ args' = [n |-> n, step |-> step, precision |-> precision]
          /\ local' = scenarios_start(n, step)
          /\ ret' = Pending

NextDescent ==
    \/ CallGenerateWeightsScenariosFew
    \/ WorkerPop
    \/ WorkerIterate
    \/ ScenariosReturn

SpecDescent == Init /\ [][NextDescent]_vars

\* C30: for every positive n, every task a worker pushes is a step down to
\* the case n = 2 that pushes nothing (its n is at least 2), so the tasks
\* that descend from the first one are finitely many, and once the workers
\* have exited nothing is left on the stack
C30_TasksDescendToBase ==
    Generating =>
        /\ \A p \in DOMAIN local.pushed : p > 1 => local.pushed[p].n >= 2
        /\ AllWorkersExited => local.stack = <<>>
====
